---------------------------- MODULE Spec2Model ----------------------------
(***************************************************************************)
(* Identity resolution and valuation pipeline of grd-landing               *)
(* (api/identify.js, api/grade.js, api/price.js).                          *)
(*                                                                         *)
(* Conventions of the model:                                               *)
(*  - a JavaScript string is a sequence of one-character strings;          *)
(*    null/undefined is the sequence Null, which no string of the model's  *)
(*    alphabet equals;                                                     *)
(*  - a confidence or score is an integer number of hundredths             *)
(*    (0.62 is 62, 0.99 is 99); an absent number is <<>>, a present        *)
(*    number n is <<n>>.                                                   *)
(***************************************************************************)
EXTENDS Integers, Sequences, FiniteSets, TLC

VARIABLES
    \* normalizeCollectorNumber applied once and twice to one input
    raw, normalized, renormalized, npc,
    \* boostByMatch applied to an identity, a candidate and its set-code twin
    scExtracted, scCand, scTwin, scScore, scTwinScore, scGradeScore, scpc,
    \* one request to the identify handler (fast-first pipeline)
    ipc,        \* "start", "resolving", "responded" ("idle": no request)
    extracted,  \* the extracted identity the resolvers and the scorer read
    pass,       \* resolver pass in progress or last run: 0, 1, 2
    pending,    \* adapters started by runResolvers and not settled yet
    settled,    \* adapter -> candidates it returned in this pass
    calls,      \* <<pass, game of the identity, adapter>> for every adapter call
    pokemonTier, \* catalog resolvePokemon waits for: "tcgdex", "pokemontcg", "none"
    response,   \* what json(res, status, body) sent, status 0 before
    \* pickVariantPrice applied to one card item
    pvVariants, pvWantPrinting, pvBest, pvpc,
    \* price handler (api/price.js, JustTCG set-lookup iteration)
    ppc,           \* position of the request: start, sets, cards, fx, responded
    priceCard,     \* the card of the request body
    apiKey,        \* whether process.env.JUSTTCG_API_KEY is set
    setId,         \* what justTCGGetSetId returned
    attempts,      \* the queries of the attempts array not yet sent
    attemptLog,    \* the queries answered: kind, list length, price of the picked item
    items,         \* the list the last answered query returned
    live,          \* what justTCGPriceUSD returned
    evRuns,        \* times the EV loop ran
    evGraded,      \* the sum the EV loop computed, <<>> before it ran
    fxFetches,     \* times getFX was called
    fxOutcome,     \* how the getFX call ended: none (not settled), rates, threw
    priceResponse, \* what json(res, status, body) sent, status 0 before
    \* the process that serves the price requests
    priceNow,      \* Date.now() of the process, in hours
    served,        \* price requests answered before the current one
    fxEvents,      \* the getFX fetches started and succeeded so far, with their times
    providerThrew, \* whether a pricing-provider fetch of the request threw
    externalCalls, \* fetches the request has started
    \* FX handler (api/fx.js)
    fxNow,         \* Date.now() of the process, in hours
    cache,         \* the module-level cache { at, rates }
    fxReqs,        \* the requests to the FX handler, each with its position
    \* identify handler, first pipeline (api/identify.js, lines 1-524)
    hpc,             \* position of the request: start, resolving, responded
    hExtracted,      \* the identity openaiVisionExtract returned, normalized
    hStarted,        \* the adapters the handler called
    hPending,        \* the adapters called and not yet settled
    hSettled,        \* the candidates each settled adapter returned
    hThrew,          \* the adapters whose fetch threw
    hPokemonTier,    \* the catalog resolvePokemon is waiting for
    hQueried,        \* the catalogs resolvePokemon has queried
    hPendingAtReply, \* the adapters still pending when the response was sent
    hResponse,       \* what json(res, status, body) sent, status 0 before
    \* EV loop of the price handler, taken alone
    evpc,          \* start, done
    evDist,        \* the distribution of the request
    evRaw,         \* live.value.raw
    evScale,       \* the factor a second request multiplies every prob by
    evOut,         \* evGraded for evDist
    evScaledOut,   \* evGraded for the scaled distribution
    \* upliftMultiplier, taken alone
    uppc,          \* start, done
    upGrades,      \* a pair of grades, in tenths
    upOut,         \* the multipliers of the pair, in hundredths
    \* convert, taken alone
    cvpc,          \* start, there, back
    cvAmount,      \* the amount, a fraction, or null
    cvFrom,        \* currency A
    cvTo,          \* currency B
    cvRates,       \* the snapshot, rates in hundredths
    cvThere,       \* convert(amount, A, B, rates)
    cvBack         \* convert(cvThere, B, A, rates)

normVars == <<raw, normalized, renormalized, npc>>
scoreVars == <<scExtracted, scCand, scTwin, scScore, scTwinScore, scGradeScore, scpc>>
identVars == <<ipc, extracted, pass, pending, settled, calls, pokemonTier, response>>
variantVars == <<pvVariants, pvWantPrinting, pvBest, pvpc>>
priceVars == <<ppc, priceCard, apiKey, setId, attempts, attemptLog, items, live,
               evRuns, evGraded, fxFetches, fxOutcome, priceResponse>>
procVars == <<priceNow, served, fxEvents>>
callVars == <<providerThrew, externalCalls>>
fxVars == <<fxNow, cache, fxReqs>>
firstVars == <<hpc, hExtracted, hStarted, hPending, hSettled, hThrew, hPokemonTier,
               hQueried, hPendingAtReply, hResponse>>
evVars == <<evpc, evDist, evRaw, evScale, evOut, evScaledOut>>
upVars == <<uppc, upGrades, upOut>>
cvVars == <<cvpc, cvAmount, cvFrom, cvTo, cvRates, cvThere, cvBack>>
vars == <<normVars, scoreVars, identVars, variantVars, priceVars, procVars, callVars, fxVars,
          firstVars, evVars, upVars, cvVars>>

---------------------------------------------------------------------------
(* Bounds *)

\* longest raw collector-number string fed to the normalizer
MaxRawLen == 4

\* most cards one catalog returns to one adapter query
MaxCards == 3

\* most variants of one card item of the pricing provider
MaxVariants == 3

\* most card items the pricing provider returns to one query
MaxItems == 2

\* most sets the pricing provider returns to one set lookup
MaxSets == 2

\* price requests one process serves
MaxPriceRequests == 2

\* hours the clock of the price handler's process runs
MaxPriceClock == 1

\* requests the FX handler receives
MaxFxRequests == 2

\* hours the clock of the FX handler's process runs
MaxClock == 13
MaxDist == 2

---------------------------------------------------------------------------
(* JavaScript values and string primitives *)

Null == <<"NULL">>

\* !x for a string-or-null value: null, undefined and "" are falsy
Falsy(x) == x = Null \/ x = <<>>
Truthy(x) == ~Falsy(x)

Max(a, b) == IF a >= b THEN a ELSE b
Min(a, b) == IF a <= b THEN a ELSE b

RECURSIVE TrimStart(_)
TrimStart(s) ==
    IF s # <<>> /\ Head(s) = " " THEN TrimStart(Tail(s)) ELSE s

RECURSIVE TrimEnd(_)
TrimEnd(s) ==
    IF s # <<>> /\ s[Len(s)] = " " THEN TrimEnd(SubSeq(s, 1, Len(s) - 1)) ELSE s

\* String.prototype.trim
Trim(s) == TrimEnd(TrimStart(s))

\* s.includes(t)
Includes(s, t) ==
    \E i \in 0..(Len(s) - Len(t)) : SubSeq(s, i + 1, i + Len(t)) = t

\* s.split("/")[0]: the part of s before its first "/"
RECURSIVE SplitSlashFirst(_)
SplitSlashFirst(s) ==
    IF s = <<>> \/ Head(s) = "/" THEN <<>>
    ELSE <<Head(s)>> \o SplitSlashFirst(Tail(s))

LowerChar(c) ==
    CASE c = "A" -> "a"
      [] c = "B" -> "b"
      [] c = "E" -> "e"
      [] c = "F" -> "f"
      [] c = "H" -> "h"
      [] c = "J" -> "j"
      [] c = "L" -> "l"
      [] c = "M" -> "m"
      [] c = "N" -> "n"
      [] c = "P" -> "p"
      [] c = "S" -> "s"
      [] OTHER -> c

\* String.prototype.toLowerCase
ToLower(s) == [i \in 1..Len(s) |-> LowerChar(s[i])]

\* String(x) for a string-or-null value: String(null) is "null"
StringOf(x) == IF x = Null THEN <<"n", "u", "l", "l">> ELSE x

\* clamp(n, a, b)
clamp(n, a, b) == Max(a, Min(b, n))

---------------------------------------------------------------------------
(* Normalizer *)

normalizeCollectorNumber(rawNum) ==
    IF Falsy(rawNum) THEN Null
    ELSE LET s == Trim(rawNum) IN
         IF s = <<>> THEN Null
         ELSE IF Includes(s, <<"/">>) THEN Trim(SplitSlashFirst(s))
         ELSE s

RawChars == {"1", "2", "/", " "}

RECURSIVE StringsUpTo(_, _)
StringsUpTo(chars, n) ==
    IF n = 0 THEN {<<>>}
    ELSE LET shorter == StringsUpTo(chars, n - 1) IN
         shorter \cup {Append(s, c) : s \in shorter, c \in chars}

RawInputs == {Null} \cup StringsUpTo(RawChars, MaxRawLen)

NormIdle ==
    /\ raw = Null
    /\ normalized = Null
    /\ renormalized = Null
    /\ npc = "idle"

NormInit ==
    /\ raw \in RawInputs
    /\ normalized = Null
    /\ renormalized = Null
    /\ npc = "raw"

\* handler: extracted.collectorNumber = normalizeCollectorNumber(extracted.collectorNumber)
Normalize ==
    /\ npc = "raw"
    /\ normalized' = normalizeCollectorNumber(raw)
    /\ npc' = "once"
    /\ UNCHANGED <<raw, renormalized>>

\* resolvePokemon / boostByMatch normalize the already normalized number again
Renormalize ==
    /\ npc = "once"
    /\ renormalized' = normalizeCollectorNumber(normalized)
    /\ npc' = "twice"
    /\ UNCHANGED <<raw, normalized>>

---------------------------------------------------------------------------
(* Candidate Scorer *)

\* cand.confidence || dflt
ConfidenceOr(conf, dflt) ==
    IF conf = <<>> \/ conf[1] = 0 THEN dflt ELSE conf[1]

\* x ? String(x).toLowerCase() : null
LowerOrNull(x) == IF Truthy(x) THEN ToLower(StringOf(x)) ELSE Null

\* x ? String(normalizeCollectorNumber(x)).toLowerCase() : null
LowerNumOrNull(x) ==
    IF Truthy(x) THEN ToLower(StringOf(normalizeCollectorNumber(x))) ELSE Null

\* a && b && a === b
BothEqual(a, b) == Truthy(a) /\ Truthy(b) /\ a = b

\* a && b && b.includes(a)
BothIncludes(a, b) == Truthy(a) /\ Truthy(b) /\ Includes(b, a)

\* the sum of the increments, returned without the final clamp
boostByMatchUnclamped(ex, cand) ==
    ConfidenceOr(cand.confidence, 55)
    + (IF BothEqual(LowerOrNull(ex.setCode), LowerOrNull(cand.setCode))
       THEN 18 ELSE 0)
    + (IF BothEqual(LowerNumOrNull(ex.collectorNumber),
                    LowerNumOrNull(cand.collectorNumber))
       THEN 20 ELSE 0)
    + (IF BothIncludes(LowerOrNull(ex.set), LowerOrNull(cand.set))
       THEN 10 ELSE 0)
    + (IF BothIncludes(LowerOrNull(ex.variant), LowerOrNull(cand.variant))
       THEN 6 ELSE 0)

\* the scorer with the set-code comparison left case-sensitive
boostByMatchCaseSensitive(ex, cand) ==
    clamp(ConfidenceOr(cand.confidence, 55)
          + (IF BothEqual(ex.setCode, cand.setCode) THEN 18 ELSE 0)
          + (IF BothEqual(LowerNumOrNull(ex.collectorNumber),
                          LowerNumOrNull(cand.collectorNumber))
             THEN 20 ELSE 0)
          + (IF BothIncludes(LowerOrNull(ex.set), LowerOrNull(cand.set))
             THEN 10 ELSE 0)
          + (IF BothIncludes(LowerOrNull(ex.variant), LowerOrNull(cand.variant))
             THEN 6 ELSE 0),
          0, 99)

\* the scorer without the collector-number increment
boostByMatchNoNumber(ex, cand) ==
    LET score0 == ConfidenceOr(cand.confidence, 55)
        score1 == IF BothEqual(LowerOrNull(ex.setCode), LowerOrNull(cand.setCode))
                  THEN score0 + 18 ELSE score0
        score3 == IF BothIncludes(LowerOrNull(ex.set), LowerOrNull(cand.set))
                  THEN score1 + 10 ELSE score1
        score4 == IF BothIncludes(LowerOrNull(ex.variant), LowerOrNull(cand.variant))
                  THEN score3 + 6 ELSE score3
    IN clamp(score4, 0, 99)

\* identify.js, fast-first pipeline
boostByMatch(ex, cand) ==
    LET score0 == ConfidenceOr(cand.confidence, 55)
        exSetCode == LowerOrNull(ex.setCode)
        exSet == LowerOrNull(ex.set)
        exNum == LowerNumOrNull(ex.collectorNumber)
        exVar == LowerOrNull(ex.variant)
        cSetCode == LowerOrNull(cand.setCode)
        cSet == LowerOrNull(cand.set)
        cNum == LowerNumOrNull(cand.collectorNumber)
        cVar == LowerOrNull(cand.variant)
        score1 == IF BothEqual(exSetCode, cSetCode) THEN score0 + 18 ELSE score0
        score2 == IF BothEqual(exNum, cNum) THEN score1 + 20 ELSE score1
        score3 == IF BothIncludes(exSet, cSet) THEN score2 + 10 ELSE score2
        score4 == IF BothIncludes(exVar, cVar) THEN score3 + 6 ELSE score3
    IN clamp(score4, 0, 99)

\* grade.js: no number normalization, variant increment 0.08, default 0.5
boostByMatchGrade(ex, cand) ==
    LET score0 == ConfidenceOr(cand.confidence, 50)
        score1 == IF BothEqual(LowerOrNull(ex.setCode), LowerOrNull(cand.setCode))
                  THEN score0 + 18 ELSE score0
        score2 == IF BothEqual(LowerOrNull(ex.collectorNumber),
                               LowerOrNull(cand.collectorNumber))
                  THEN score1 + 18 ELSE score1
        score3 == IF BothIncludes(LowerOrNull(ex.set), LowerOrNull(cand.set))
                  THEN score2 + 10 ELSE score2
        score4 == IF BothIncludes(LowerOrNull(ex.variant), LowerOrNull(cand.variant))
                  THEN score3 + 8 ELSE score3
    IN clamp(score4, 0, 99)

\* base confidences the adapters of api/identify.js and api/grade.js assign
AdapterConfidences == {62, 64, 65, 66, 67, 68, 70, 72, 82, 86, 90}

\* a candidate's confidence field: absent, zero, negative, above 1, or an adapter's
ScConfidences == {<<>>, <<0>>, <<0 - 10>>, <<120>>} \cup {<<n>> : n \in AdapterConfidences}

ScExtracted ==
    [setCode : {Null, <<"a", "B">>},
     set : {Null, <<"b", "a">>},
     collectorNumber : {Null, <<"4">>, <<"4", "/", "9">>},
     variant : {Null, <<"f">>}]

ScCandSetCodes == {Null, <<"A", "b">>, <<"b">>}

ScCands ==
    [confidence : ScConfidences,
     setCode : ScCandSetCodes,
     set : {Null, <<"B", "a", "s">>, <<"j">>},
     collectorNumber : {Null, <<"4">>, <<"5">>},
     variant : {Null, <<"F", "o">>, <<"n">>}]

ScoreIdle ==
    /\ scExtracted = Null
    /\ scCand = Null
    /\ scTwin = Null
    /\ scScore = <<>>
    /\ scTwinScore = <<>>
    /\ scGradeScore = <<>>
    /\ scpc = "idle"

\* an identity, a candidate, and the candidate with another set code
ScoreInit ==
    /\ scExtracted \in ScExtracted
    /\ scCand \in ScCands
    /\ \E code \in ScCandSetCodes :
          scTwin = [scCand EXCEPT !.setCode = code]
    /\ scScore = <<>>
    /\ scTwinScore = <<>>
    /\ scGradeScore = <<>>
    /\ scpc = "input"

\* handler: candidates.map((c) => ({ ...c, confidence: boostByMatch(extracted, c) }))
Boost ==
    /\ scpc = "input"
    /\ scScore' = <<boostByMatch(scExtracted, scCand)>>
    /\ scTwinScore' = <<boostByMatch(scExtracted, scTwin)>>
    /\ scpc' = "boosted"
    /\ UNCHANGED <<scExtracted, scCand, scTwin, scGradeScore>>

\* the same candidate scored by the scorer of api/grade.js
BoostGrade ==
    /\ scpc = "boosted"
    /\ scGradeScore' = <<boostByMatchGrade(scExtracted, scCand)>>
    /\ scpc' = "graded"
    /\ UNCHANGED <<scExtracted, scCand, scTwin, scScore, scTwinScore>>

---------------------------------------------------------------------------
(* Provider adapters of the identify handler (fast-first pipeline) *)

Adapters == {"pokemon", "mtg", "yugioh"}
Games == Adapters \cup {"unknown"}

UpperChar(c) ==
    CASE c = "a" -> "A"
      [] c = "b" -> "B"
      [] c = "f" -> "F"
      [] OTHER -> c

\* String.prototype.toUpperCase
ToUpper(s) == [i \in 1..Len(s) |-> UpperChar(s[i])]

\* x ? String(x).trim() : dflt
TrimOr(x, dflt) == IF Truthy(x) THEN Trim(StringOf(x)) ELSE dflt

\* x || dflt for a string-or-null value
OrElse(x, dflt) == IF Truthy(x) THEN x ELSE dflt

\* arr.slice(0, n)
Take(arr, n) == SubSeq(arr, 1, Min(n, Len(arr)))

RECURSIVE SeqsUpTo(_, _)
SeqsUpTo(elems, n) ==
    IF n = 0 THEN {<<>>}
    ELSE LET shorter == SeqsUpTo(elems, n - 1) IN
         shorter \cup {Append(q, e) : q \in shorter, e \in elems}

\* Scryfall printings: set code and collector number
MtgCards ==
    {[set |-> <<"a", "b">>, collector_number |-> <<"4">>],
     [set |-> <<"z">>, collector_number |-> <<"5">>]}

\* what the Scryfall search answers: ok is false for a failed fetch or a non-OK status
MtgWorlds == [ok : BOOLEAN, data : SeqsUpTo(MtgCards, MaxCards)]

resolveMTG(ex, world) ==
    LET name == TrimOr(ex.name, <<>>) IN
    IF name = <<>> THEN <<>>
    ELSE IF ~world.ok THEN <<>>
    ELSE LET data == Take(world.data, 8) IN
         [i \in 1..Len(data) |->
            [game |-> "mtg",
             setCode |-> data[i].set,
             set |-> <<"j">>,
             collectorNumber |-> StringOf(OrElse(data[i].collector_number, <<>>)),
             variant |-> <<"n">>,
             confidence |-> <<70>>]]

\* YGOPRODeck cards: the prints (card_sets) of the card
YgoCards ==
    {[card_sets |-> <<[set_code |-> <<"z">>], [set_code |-> <<"A", "B">>]>>]}

YgoWorlds == [ok : BOOLEAN, data : SeqsUpTo(YgoCards, MaxCards)]

\* the print the candidate is built from; a record without set code stands for null:
\* c.card_sets.find((s) => s.set_code.toUpperCase() === setCode.toUpperCase()) || c.card_sets[0]
ygoBestSet(card, setCode) ==
    IF card.card_sets = <<>> THEN [set_code |-> Null]
    ELSE IF setCode # Null
    THEN LET hits == SelectSeq(card.card_sets,
                            LAMBDA st : ToUpper(OrElse(st.set_code, <<>>)) = ToUpper(setCode))
         IN IF hits # <<>> THEN hits[1] ELSE card.card_sets[1]
    ELSE card.card_sets[1]

resolveYugioh(ex, world) ==
    LET name == TrimOr(ex.name, <<>>)
        setCode == TrimOr(ex.setCode, Null)
    IN
    IF name = <<>> /\ setCode = Null THEN <<>>
    ELSE IF ~world.ok THEN <<>>
    ELSE LET data == Take(world.data, 8) IN
         [i \in 1..Len(data) |->
            LET bestSet == ygoBestSet(data[i], setCode) IN
            [game |-> "yugioh",
             setCode |-> OrElse(bestSet.set_code, Null),
             set |-> Null,
             collectorNumber |-> Null,
             variant |-> Null,
             confidence |-> <<66>>]]

\* TCGdex cards (localId) and PokemonTCG.io cards (number)
TcgdexCards == {[localId |-> <<"4">>], [localId |-> <<"5">>]}
PokemonTcgCards == {[number |-> <<"4">>], [number |-> <<"5">>]}

\* what TCGdex answers: a failed list fetch is an empty list, detailsOk tells
\* whether the detail fetches succeed
TcgdexWorlds == [tcgdex : SeqsUpTo(TcgdexCards, MaxCards), detailsOk : BOOLEAN]

\* what PokemonTCG.io answers: a failed fetch or a non-OK status is an empty list
PokemonTcgWorlds == SeqsUpTo(PokemonTcgCards, MaxCards)

\* resolvePokemon, tier 1: the candidates built from TCGdex
resolvePokemonTcgdex(ex, world) ==
    LET num == normalizeCollectorNumber(ex.collectorNumber)
        setName == TrimOr(ex.set, Null)
        exact == SelectSeq(world.tcgdex,
                           LAMBDA c : Trim(OrElse(c.localId, <<>>)) = StringOf(num))
        tcgList == IF world.tcgdex # <<>> /\ Truthy(num) /\ exact # <<>>
                   THEN exact ELSE world.tcgdex
        details == IF world.detailsOk THEN Take(tcgList, 5) ELSE <<>>
        tcgdexCandidates ==
            [i \in 1..Len(details) |->
               LET cNum == TrimOr(details[i].localId, <<>>)
                   cSet == <<"j">>
               IN
               [game |-> "pokemon",
                setCode |-> <<"z">>,
                set |-> cSet,
                collectorNumber |->
                    IF Truthy(details[i].localId) THEN details[i].localId
                    ELSE IF Truthy(num) THEN num ELSE <<>>,
                variant |-> Null,
                confidence |->
                    IF Truthy(num) /\ cNum = num THEN <<86>>
                    ELSE IF Truthy(setName) /\ Includes(ToLower(cSet), ToLower(setName))
                    THEN <<72>>
                    ELSE <<62>>]]
    IN Take(tcgdexCandidates, 8)

\* resolvePokemon, tier 2: the candidates built from PokemonTCG.io
resolvePokemonTcgIo(ex, world) ==
    LET data == Take(world, 8) IN
    [i \in 1..Len(data) |->
        [game |-> "pokemon",
         setCode |-> <<"z">>,
         set |-> <<"j">>,
         collectorNumber |-> StringOf(OrElse(data[i].number, <<>>)),
         variant |-> Null,
         confidence |-> <<68>>]]

\* every candidate list adapter a (resolveMTG or resolveYugioh) may return for ex
AdapterResults(a, ex) ==
    CASE a = "mtg" -> {resolveMTG(ex, w) : w \in MtgWorlds}
      [] a = "yugioh" -> {resolveYugioh(ex, w) : w \in YgoWorlds}

---------------------------------------------------------------------------
(* Resolver and identify handler (fast-first pipeline) *)

\* a resolver that queries every adapter whatever the game
runResolversAdaptersAll(game) == Adapters

\* runResolvers: the adapters it calls for the identity's game
runResolversAdapters(game) ==
    IF game \in Adapters THEN {game} ELSE Adapters

\* a runResolvers that loses what its adapters returned
runResolversResultNone(game, results) == <<>>

\* runResolvers: its return value once the adapters it called have settled
runResolversResult(game, results) ==
    IF game \in Adapters THEN results[game]
    ELSE results["pokemon"] \o results["mtg"] \o results["yugioh"]

\* (b.confidence || 0) - (a.confidence || 0) <= 0: a stays before b
RECURSIVE InsertByConfidence(_, _)
InsertByConfidence(c, sorted) ==
    IF sorted = <<>> THEN <<c>>
    ELSE IF ConfidenceOr(Head(sorted).confidence, 0) >= ConfidenceOr(c.confidence, 0)
    THEN <<Head(sorted)>> \o InsertByConfidence(c, Tail(sorted))
    ELSE <<c>> \o sorted

\* Array.prototype.sort((a, b) => (b.confidence || 0) - (a.confidence || 0)), stable
RECURSIVE SortByConfidence(_)
SortByConfidence(cands) ==
    IF cands = <<>> THEN <<>>
    ELSE InsertByConfidence(cands[Len(cands)],
                            SortByConfidence(SubSeq(cands, 1, Len(cands) - 1)))

\* the ranking with the sort left out
rankCandidatesUnsorted(ex, cands) ==
    Take([i \in 1..Len(cands) |->
            [cands[i] EXCEPT !.confidence = <<boostByMatch(ex, cands[i])>>]], 6)

\* the ranking with the truncation left out
rankCandidatesUncut(ex, cands) ==
    SortByConfidence([i \in 1..Len(cands) |->
            [cands[i] EXCEPT !.confidence = <<boostByMatch(ex, cands[i])>>]])

\* candidates.map(boostByMatch).sort(by confidence, descending).slice(0, 6)
rankCandidates(ex, cands) ==
    Take(SortByConfidence(
            [i \in 1..Len(cands) |->
               [cands[i] EXCEPT !.confidence = <<boostByMatch(ex, cands[i])>>]]), 6)

\* what openaiMicroExtract and openaiFallbackExtract return after sanitizing
ExtractedIdentities ==
    [game : Games,
     name : {Null, <<"c">>},
     setCode : {Null, <<"a", "B">>},
     set : {Null},
     collectorNumber : {Null, <<"4", "/", "9">>},
     variant : {Null}]

\* what the fallback extraction may return
RefinedIdentities ==
    {ex \in ExtractedIdentities :
        /\ ex.game \in {"unknown", "mtg"}
        /\ ex.setCode = Null
        /\ (ex.name = Null) = (ex.collectorNumber = Null)}

\* { ...extracted, ...refined without its null and "" entries }
mergeRefined(ex, refined) ==
    [f \in DOMAIN ex |->
        IF f \in {"game"} THEN refined[f]
        ELSE IF refined[f] # Null /\ refined[f] # <<>> THEN refined[f] ELSE ex[f]]

NoResults == [a \in Adapters |-> <<>>]

\* the handler's locals before it assigns them
NoIdentity ==
    [game |-> "unknown", name |-> Null, setCode |-> Null, set |-> Null,
     collectorNumber |-> Null, variant |-> Null]

\* a reply that reports an empty candidate list as not found
ReplyEmptyAsNotFound(status, cands) ==
    [status |-> IF cands = <<>> /\ status = 200 THEN 404 ELSE status, candidates |-> cands]

\* json(res, status, body)
Reply(status, cands) == [status |-> status, candidates |-> cands]

NoResponse == Reply(0, <<>>)

IdentIdle ==
    /\ ipc = "idle"
    /\ extracted = NoIdentity
    /\ pass = 0
    /\ pending = {}
    /\ settled = NoResults
    /\ calls = {}
    /\ pokemonTier = "none"
    /\ response = NoResponse

IdentInit ==
    /\ ipc = "start"
    /\ extracted = NoIdentity
    /\ pass = 0
    /\ pending = {}
    /\ settled = NoResults
    /\ calls = {}
    /\ pokemonTier = "none"
    /\ response = NoResponse

\* handler up to its first await of runResolvers: method and body checks, micro
\* extract, normalization, and the adapter calls runResolvers starts
MicroExtract ==
    /\ ipc = "start"
    /\ \/ \E status \in {405, 400, 500} :
            /\ response' = Reply(status, <<>>)
            /\ ipc' = "responded"
            /\ UNCHANGED <<extracted, pass, pending, settled, calls, pokemonTier>>
       \/ \E parsed \in ExtractedIdentities :
            LET ex == [parsed EXCEPT
                         !.collectorNumber = normalizeCollectorNumber(parsed.collectorNumber)]
            IN
            /\ extracted' = ex
            /\ pass' = 1
            /\ pending' = runResolversAdapters(ex.game)
            /\ calls' = calls \cup {<<1, ex.game, a>> : a \in runResolversAdapters(ex.game)}
            /\ settled' = NoResults
            /\ pokemonTier' = IF "pokemon" \in runResolversAdapters(ex.game)
                               THEN "tcgdex" ELSE "none"
            /\ ipc' = "resolving"
            /\ UNCHANGED response

\* resolveMTG or resolveYugioh settles: it returns its candidates, [] after a
\* caught failure
AdapterSettle(a) ==
    /\ ipc = "resolving"
    /\ a \in pending \ {"pokemon"}
    /\ \E result \in AdapterResults(a, extracted) :
          settled' = [settled EXCEPT ![a] = result]
    /\ pending' = pending \ {a}
    /\ UNCHANGED <<ipc, extracted, pass, calls, pokemonTier, response>>

\* resolvePokemon up to its return or its PokemonTCG.io query: no name returns [],
\* TCGdex candidates are returned, otherwise the second catalog is queried
PokemonPrimary ==
    /\ ipc = "resolving"
    /\ "pokemon" \in pending
    /\ pokemonTier = "tcgdex"
    /\ IF TrimOr(extracted.name, <<>>) = <<>>
       THEN /\ settled' = [settled EXCEPT !["pokemon"] = <<>>]
            /\ pending' = pending \ {"pokemon"}
            /\ pokemonTier' = "none"
       ELSE \E world \in TcgdexWorlds :
              LET tcgdexCandidates == resolvePokemonTcgdex(extracted, world) IN
              IF tcgdexCandidates # <<>>
              THEN /\ settled' = [settled EXCEPT !["pokemon"] = tcgdexCandidates]
                   /\ pending' = pending \ {"pokemon"}
                   /\ pokemonTier' = "none"
              ELSE /\ pokemonTier' = "pokemontcg"
                   /\ UNCHANGED <<settled, pending>>
    /\ UNCHANGED <<ipc, extracted, pass, calls, response>>

\* resolvePokemon after its PokemonTCG.io query: it returns that catalog's cards
PokemonSecondary ==
    /\ ipc = "resolving"
    /\ "pokemon" \in pending
    /\ pokemonTier = "pokemontcg"
    /\ \E world \in PokemonTcgWorlds :
          settled' = [settled EXCEPT !["pokemon"] = resolvePokemonTcgIo(extracted, world)]
    /\ pending' = pending \ {"pokemon"}
    /\ pokemonTier' = "none"
    /\ UNCHANGED <<ipc, extracted, pass, calls, response>>

\* first pass found candidates: rank them and answer (fast path)
RespondFast ==
    /\ ipc = "resolving" /\ pending = {} /\ pass = 1
    /\ runResolversResult(extracted.game, settled) # <<>>
    /\ response' = Reply(200, rankCandidates(extracted,
                                             runResolversResult(extracted.game, settled)))
    /\ ipc' = "responded"
    /\ UNCHANGED <<extracted, pass, pending, settled, calls, pokemonTier>>

\* first pass found nothing: fallback extract, merge, normalize, second pass
FallbackExtract ==
    /\ ipc = "resolving" /\ pending = {} /\ pass = 1
    /\ runResolversResult(extracted.game, settled) = <<>>
    /\ \/ /\ response' = Reply(500, <<>>)
          /\ ipc' = "responded"
          /\ UNCHANGED <<extracted, pass, pending, settled, calls, pokemonTier>>
       \/ \E refined \in RefinedIdentities :
            LET merged == mergeRefined(extracted, refined)
                ex == [merged EXCEPT
                         !.collectorNumber = normalizeCollectorNumber(merged.collectorNumber)]
            IN
            /\ extracted' = ex
            /\ pass' = 2
            /\ pending' = runResolversAdapters(ex.game)
            /\ calls' = calls \cup {<<2, ex.game, a>> : a \in runResolversAdapters(ex.game)}
            /\ settled' = NoResults
            /\ pokemonTier' = IF "pokemon" \in runResolversAdapters(ex.game)
                               THEN "tcgdex" ELSE "none"
            /\ UNCHANGED <<ipc, response>>

\* second pass settled: rank what it found, possibly nothing, and answer
RespondAfterFallback ==
    /\ ipc = "resolving" /\ pending = {} /\ pass = 2
    /\ response' = Reply(200, rankCandidates(extracted,
                                             runResolversResult(extracted.game, settled)))
    /\ ipc' = "responded"
    /\ UNCHANGED <<extracted, pass, pending, settled, calls, pokemonTier>>

---------------------------------------------------------------------------
(* Identify handler, first pipeline (api/identify.js, lines 1-524) *)

\* boostByMatch of the first pipeline
boostByMatchFirst(ex, cand) ==
    LET score0 == ConfidenceOr(cand.confidence, 50)
        exSetCode == LowerOrNull(ex.setCode)
        exSet == LowerOrNull(ex.set)
        exNum == LowerNumOrNull(ex.collectorNumber)
        exVar == LowerOrNull(ex.variant)
        cSetCode == LowerOrNull(cand.setCode)
        cSet == LowerOrNull(cand.set)
        cNum == LowerNumOrNull(cand.collectorNumber)
        cVar == LowerOrNull(cand.variant)
        score1 == IF BothEqual(exSetCode, cSetCode) THEN score0 + 18 ELSE score0
        score2 == IF BothEqual(exNum, cNum) THEN score1 + 18 ELSE score1
        score3 == IF BothIncludes(exSet, cSet) THEN score2 + 10 ELSE score2
        score4 == IF BothIncludes(exVar, cVar) THEN score3 + 6 ELSE score3
    IN clamp(score4, 0, 99)

\* resolveMTG once its fetch has answered
resolveMTGFirst(ex, world) ==
    IF ~world.ok THEN <<>>
    ELSE LET data == Take(world.data, 8) IN
         [i \in 1..Len(data) |->
            [game |-> "mtg",
             setCode |-> data[i].set,
             set |-> <<"j">>,
             collectorNumber |-> StringOf(OrElse(data[i].collector_number, <<>>)),
             variant |-> <<"n">>,
             confidence |-> <<67>>]]

\* resolveYugioh once its fetch has answered
resolveYugiohFirst(ex, world) ==
    LET setCode == TrimOr(ex.setCode, Null) IN
    IF ~world.ok THEN <<>>
    ELSE LET data == Take(world.data, 8) IN
         [i \in 1..Len(data) |->
            LET bestSet == ygoBestSet(data[i], setCode) IN
            [game |-> "yugioh",
             setCode |-> OrElse(bestSet.set_code, Null),
             set |-> Null,
             collectorNumber |-> Null,
             variant |-> Null,
             confidence |-> <<64>>]]

\* whether resolveMTG / resolveYugioh return [] before any fetch
returnsBeforeFetch(a, ex) ==
    CASE a = "mtg" -> TrimOr(ex.name, <<>>) = <<>>
      [] a = "yugioh" -> TrimOr(ex.name, <<>>) = <<>> /\ TrimOr(ex.setCode, Null) = Null
      [] a = "pokemon" -> TrimOr(ex.name, <<>>) = <<>>

\* every candidate list resolveMTG or resolveYugioh may return after a fetch
\* that answered
AdapterResultsFirst(a, ex) ==
    CASE a = "mtg" -> {resolveMTGFirst(ex, w) : w \in MtgWorlds}
      [] a = "yugioh" -> {resolveYugiohFirst(ex, w) : w \in YgoWorlds}

\* resolvePokemon, PokemonTCG.io part: the cards kept (with a number only the
\* cards of that number, an empty filter result included) and their candidates
resolvePokemonFirstTcgIo(ex, data) ==
    LET num == normalizeCollectorNumber(ex.collectorNumber)
        picked == IF Truthy(num)
                  THEN SelectSeq(data, LAMBDA c : Trim(StringOf(OrElse(c.number, <<>>)))
                                                    = StringOf(num))
                  ELSE data
        top == Take(picked, 8)
    IN [i \in 1..Len(top) |->
          [game |-> "pokemon",
           setCode |-> <<"z">>,
           set |-> <<"j">>,
           collectorNumber |-> StringOf(OrElse(top[i].number, <<>>)),
           variant |-> Null,
           confidence |->
               IF Truthy(num) /\ Trim(StringOf(OrElse(top[i].number, <<>>))) = StringOf(num)
               THEN <<90>> ELSE <<68>>]]

\* resolvePokemon, TCGdex part
resolvePokemonFirstTcgdex(ex, world) ==
    LET num == normalizeCollectorNumber(ex.collectorNumber)
        exact == SelectSeq(world.tcgdex,
                           LAMBDA c : Trim(StringOf(OrElse(c.localId, <<>>))) = StringOf(num))
        tcgPicked == IF Truthy(num) /\ exact # <<>> THEN exact ELSE world.tcgdex
        detailed == IF world.detailsOk THEN Take(tcgPicked, 6) ELSE <<>>
        top == Take(detailed, 8)
    IN [i \in 1..Len(top) |->
          [game |-> "pokemon",
           setCode |-> <<"z">>,
           set |-> <<"j">>,
           collectorNumber |->
               IF Truthy(top[i].localId) THEN StringOf(top[i].localId)
               ELSE IF Truthy(num) THEN StringOf(num) ELSE <<>>,
           variant |-> Null,
           confidence |->
               IF Truthy(num) /\ Trim(StringOf(OrElse(top[i].localId, <<>>))) = StringOf(num)
               THEN <<82>> ELSE <<62>>]]

\* candidates.map(boostByMatch).sort(by confidence, descending), then slice(0, 6)
rankCandidatesFirst(ex, cands) ==
    Take(SortByConfidence(
            [i \in 1..Len(cands) |->
               [cands[i] EXCEPT !.confidence = <<boostByMatchFirst(ex, cands[i])>>]]), 6)

\* [...m, ...y, ...p], or the one adapter's candidates
candidatesFirst(game, results) ==
    IF game \in Adapters THEN results[game]
    ELSE results["mtg"] \o results["yugioh"] \o results["pokemon"]

FirstIdle ==
    /\ hpc = "idle"
    /\ hExtracted = NoIdentity
    /\ hStarted = {}
    /\ hPending = {}
    /\ hSettled = NoResults
    /\ hThrew = {}
    /\ hPokemonTier = "none"
    /\ hQueried = {}
    /\ hPendingAtReply = {}
    /\ hResponse = NoResponse

FirstInit ==
    /\ hpc = "start"
    /\ hExtracted = NoIdentity
    /\ hStarted = {}
    /\ hPending = {}
    /\ hSettled = NoResults
    /\ hThrew = {}
    /\ hPokemonTier = "none"
    /\ hQueried = {}
    /\ hPendingAtReply = {}
    /\ hResponse = NoResponse

\* handler up to its await of the adapters: method and body checks, vision
\* extract, normalization, and the adapter calls of the game dispatch
VisionExtract ==
    /\ hpc = "start"
    /\ \/ \E status \in {405, 400, 500} :
            /\ hResponse' = Reply(status, <<>>)
            /\ hpc' = "responded"
            /\ UNCHANGED <<hExtracted, hStarted, hPending, hPokemonTier>>
       \/ \E parsed \in ExtractedIdentities :
            LET ex == [parsed EXCEPT
                         !.collectorNumber = normalizeCollectorNumber(parsed.collectorNumber)]
                called == IF ex.game \in Adapters THEN {ex.game} ELSE Adapters
            IN
            /\ hExtracted' = ex
            /\ hStarted' = called
            /\ hPending' = called
            /\ hPokemonTier' = IF "pokemon" \in called THEN "pokemontcg" ELSE "none"
            /\ hpc' = "resolving"
            /\ UNCHANGED hResponse
    /\ UNCHANGED <<hSettled, hThrew, hQueried, hPendingAtReply>>

\* resolveMTG or resolveYugioh settles: with its candidates, or, when its
\* fetch throws, with a rejection that the handler's await (of the adapter or
\* of Promise.all) passes at once to the catch block
FirstAdapterSettle(a) ==
    /\ hpc = "resolving"
    /\ a \in hPending \ {"pokemon"}
    /\ \/ /\ \E result \in (IF returnsBeforeFetch(a, hExtracted) THEN {<<>>}
                            ELSE AdapterResultsFirst(a, hExtracted)) :
                hSettled' = [hSettled EXCEPT ![a] = result]
          /\ hPending' = hPending \ {a}
          /\ UNCHANGED <<hpc, hThrew, hPendingAtReply, hResponse>>
       \/ /\ ~returnsBeforeFetch(a, hExtracted)
          /\ hThrew' = hThrew \cup {a}
          /\ hPending' = hPending \ {a}
          /\ hPendingAtReply' = hPending \ {a}
          /\ hResponse' = Reply(500, <<>>)
          /\ hpc' = "responded"
          /\ UNCHANGED hSettled
    /\ UNCHANGED <<hExtracted, hStarted, hPokemonTier, hQueried>>

\* resolvePokemon up to its return or its TCGdex query: no name returns [],
\* a PokemonTCG.io answer with cards returns, otherwise TCGdex is queried
FirstPokemonPrimary ==
    /\ hpc = "resolving"
    /\ "pokemon" \in hPending
    /\ hPokemonTier = "pokemontcg"
    /\ hQueried' = IF returnsBeforeFetch("pokemon", hExtracted) THEN hQueried
                   ELSE hQueried \cup {"pokemontcg"}
    /\ IF returnsBeforeFetch("pokemon", hExtracted)
       THEN /\ hSettled' = [hSettled EXCEPT !["pokemon"] = <<>>]
            /\ hPending' = hPending \ {"pokemon"}
            /\ hPokemonTier' = "none"
       ELSE \E data \in PokemonTcgWorlds :
              IF data # <<>>
              THEN /\ hSettled' = [hSettled EXCEPT
                                     !["pokemon"] = resolvePokemonFirstTcgIo(hExtracted, data)]
                   /\ hPending' = hPending \ {"pokemon"}
                   /\ hPokemonTier' = "none"
              ELSE /\ hPokemonTier' = "tcgdex"
                   /\ UNCHANGED <<hSettled, hPending>>
    /\ UNCHANGED <<hpc, hExtracted, hStarted, hThrew, hPendingAtReply, hResponse>>

\* resolvePokemon after its TCGdex queries
FirstPokemonSecondary ==
    /\ hpc = "resolving"
    /\ "pokemon" \in hPending
    /\ hPokemonTier = "tcgdex"
    /\ \E world \in TcgdexWorlds :
          hSettled' = [hSettled EXCEPT
                         !["pokemon"] = resolvePokemonFirstTcgdex(hExtracted, world)]
    /\ hPending' = hPending \ {"pokemon"}
    /\ hPokemonTier' = "none"
    /\ hQueried' = hQueried \cup {"tcgdex"}
    /\ UNCHANGED <<hpc, hExtracted, hStarted, hThrew, hPendingAtReply, hResponse>>

\* every awaited adapter has returned: rank and answer
FirstRespond ==
    /\ hpc = "resolving"
    /\ hPending = {}
    /\ hResponse' = Reply(200, rankCandidatesFirst(hExtracted,
                                                   candidatesFirst(hExtracted.game, hSettled)))
    /\ hpc' = "responded"
    /\ UNCHANGED <<hExtracted, hStarted, hPending, hSettled, hThrew, hPokemonTier,
                   hQueried, hPendingAtReply>>

---------------------------------------------------------------------------
(* Price Selector: pickVariantPrice (api/price.js, JustTCG set-lookup iteration) *)

\* printings and conditions the pricing provider reports
Normal == <<"N", "o", "r", "m", "a", "l">>
Foil == <<"F", "o", "i", "l">>
NearMint == <<"N", "e", "a", "r", " ", "M", "i", "n", "t">>
LightlyPlayed == <<"L", "P">>

\* norm = (s) => String(s || "").toLowerCase()
norm(x) == ToLower(StringOf(OrElse(x, <<>>)))

\* isNM: the condition contains "near" or is "nm"
isNM(v) ==
    LET c == norm(v.condition) IN
    \/ Includes(c, <<"n", "e", "a", "r">>)
    \/ c = <<"n", "m">>
    \/ Includes(c, <<"n", "e", "a", "r", "-", "m", "i", "n", "t">>)

printingOk(v, wantPrinting) == norm(v.printing) = norm(wantPrinting)

\* priceOf: the variant's price when it is a finite number, else null (<<>>)
priceOf(v) == v.price

\* buckets in the order both-match, Near Mint of any printing, any variant
bucketsConditionFirst(variants, wantPrinting) ==
    <<SelectSeq(variants, LAMBDA v : printingOk(v, wantPrinting) /\ isNM(v)),
      SelectSeq(variants, LAMBDA v : isNM(v)),
      variants>>

\* the three buckets in the order they are tried
buckets(variants, wantPrinting) ==
    <<SelectSeq(variants, LAMBDA v : printingOk(v, wantPrinting) /\ isNM(v)),
      SelectSeq(variants, LAMBDA v : printingOk(v, wantPrinting)),
      variants>>

\* the inner loop keeping the lower price: if (!best || p < best.price) best = ...
RECURSIVE bestOfBucketLowest(_, _)
bestOfBucketLowest(b, best) ==
    IF b = <<>> THEN best
    ELSE LET v == Head(b)
             p == priceOf(v)
         IN IF p = <<>> THEN bestOfBucketLowest(Tail(b), best)
            ELSE IF best = <<>> \/ p[1] < best[1].price
            THEN bestOfBucketLowest(Tail(b), <<[price |-> p[1], variant |-> v]>>)
            ELSE bestOfBucketLowest(Tail(b), best)

\* the inner loop: for (const v of b) { ...; if (!best || p > best.price) best = ... }
RECURSIVE bestOfBucket(_, _)
bestOfBucket(b, best) ==
    IF b = <<>> THEN best
    ELSE LET v == Head(b)
             p == priceOf(v)
         IN IF p = <<>> THEN bestOfBucket(Tail(b), best)
            ELSE IF best = <<>> \/ p[1] > best[1].price
            THEN bestOfBucket(Tail(b), <<[price |-> p[1], variant |-> v]>>)
            ELSE bestOfBucket(Tail(b), best)

\* the outer loop: the best of the first bucket that has one; <<>> is "return null"
RECURSIVE firstBest(_)
firstBest(bs) ==
    IF bs = <<>> THEN <<>>
    ELSE IF bestOfBucket(Head(bs), <<>>) # <<>> THEN bestOfBucket(Head(bs), <<>>)
    ELSE firstBest(Tail(bs))

\* pickVariantPrice: <<>> for null, else <<[price, variant]>> (the price it
\* returns and the variant it records in debug.justtcg.pickedVariant)
pickVariantPrice(variants, wantPrinting) ==
    IF variants = <<>> THEN <<>>
    ELSE firstBest(buckets(variants, wantPrinting))

\* the number pickVariantPrice returns: <<>> for null
priceUSDOf(best) == IF best = <<>> THEN <<>> ELSE <<best[1].price>>

\* desiredPrinting: "Foil" for a foil, holo, reverse or etched variant
desiredPrinting(variant) ==
    LET v == ToLower(StringOf(OrElse(variant, <<>>))) IN
    IF \/ Includes(v, <<"f", "o", "i", "l">>)
       \/ Includes(v, <<"h", "o", "l", "o">>)
       \/ Includes(v, <<"r", "e", "v", "e", "r", "s", "e">>)
       \/ Includes(v, <<"e", "t", "c", "h", "e", "d">>)
    THEN Foil
    ELSE Normal

\* the variant field of the request's card
CardVariants == {Null, <<"H", "o", "l", "o">>, <<"E", "t", "c", "h", "e", "d">>,
                 <<"F", "u", "l", "l", " ", "A", "r", "t">>}

Variants ==
    [printing : {Normal, Foil},
     condition : {NearMint, LightlyPlayed},
     price : {<<>>, <<1>>, <<2>>}]

VariantIdle ==
    /\ pvVariants = <<>>
    /\ pvWantPrinting = Null
    /\ pvBest = <<>>
    /\ pvpc = "idle"

VariantInit ==
    /\ pvVariants \in SeqsUpTo(Variants, MaxVariants)
    /\ pvWantPrinting \in {desiredPrinting(v) : v \in CardVariants}
    /\ pvBest = <<>>
    /\ pvpc = "item"

\* justTCGPriceUSD: const priceUSD = pickVariantPrice(picked, wantPrinting, debug)
PickVariant ==
    /\ pvpc = "item"
    /\ pvBest' = pickVariantPrice(pvVariants, pvWantPrinting)
    /\ pvpc' = "picked"
    /\ UNCHANGED <<pvVariants, pvWantPrinting>>

---------------------------------------------------------------------------
(* Price handler (api/price.js, JustTCG set-lookup iteration) *)

Pokemon == <<"p", "o", "k", "e", "m", "o", "n">>
Mew == <<"M", "e", "w">>
MewBoosterBox ==
    <<"M", "e", "w", " ", "B", "o", "o", "s", "t", "e", "r", " ", "B", "o", "x">>
Base == <<"B", "a", "s", "e">>
Jungle == <<"J", "u", "n", "g", "l", "e">>
JustTCG == <<"J", "u", "s", "t", "T", "C", "G">>
USD == <<"U", "S", "D">>

\* toJustTCGGameId: the provider's game id, or null
toJustTCGGameId(game) ==
    LET g == ToLower(StringOf(OrElse(game, <<>>))) IN
    IF g = Pokemon THEN Pokemon
    ELSE IF g = <<"m", "t", "g">> \/ Includes(g, <<"m", "a", "g", "i", "c">>)
    THEN <<"m", "t", "g">>
    ELSE IF g = <<"y", "u", "g", "i", "o", "h">> \/ Includes(g, <<"y", "u">>)
    THEN <<"y", "u", "g", "i", "o", "h">>
    ELSE Null

\* a curve that dips at 9.5
upliftMultiplierDip(grade) ==
    IF grade >= 100 THEN 300
    ELSE IF grade >= 95 THEN 130
    ELSE IF grade >= 90 THEN 135
    ELSE IF grade >= 85 THEN 112
    ELSE IF grade >= 80 THEN 108
    ELSE 102

\* upliftMultiplier, grade in tenths, multiplier in hundredths
upliftMultiplier(grade) ==
    IF grade >= 100 THEN 300
    ELSE IF grade >= 95 THEN 190
    ELSE IF grade >= 90 THEN 135
    ELSE IF grade >= 85 THEN 112
    ELSE IF grade >= 80 THEN 108
    ELSE 102

\* the distribution the handler uses when the request carries none
DefaultDistribution ==
    <<[grade |-> 85, prob |-> 20], [grade |-> 90, prob |-> 50],
      [grade |-> 95, prob |-> 25], [grade |-> 100, prob |-> 5]>>

\* the EV loop: the sum of prob * (raw * upliftMultiplier(grade)), prob in
\* hundredths, so the result is in 1/10000 of the currency unit; a null raw
\* multiplies as 0
RECURSIVE evGradedOf(_, _)
evGradedOf(dist, rawPrice) ==
    IF dist = <<>> THEN 0
    ELSE LET g == Head(dist)
             grade == clamp(IF g.grade = 0 THEN 90 ELSE g.grade, 10, 100)
             prob == Max(0, g.prob)
             rawNum == IF rawPrice = <<>> THEN 0 ELSE rawPrice[1]
         IN prob * (rawNum * upliftMultiplier(grade)) + evGradedOf(Tail(dist), rawPrice)

\* dist = Array.isArray(distribution) && distribution.length ? distribution : default
distOf(distribution) ==
    IF distribution = <<>> THEN DefaultDistribution ELSE distribution

\* isFinite(x) of a number-or-null: isFinite(null) is isFinite(0), true, and
\* pickVariantPrice never returns NaN or an infinity
isFinite(x) == IF x = <<>> THEN TRUE ELSE TRUE

\* s.split(/\s+/).filter(Boolean)
RECURSIVE Tokens(_)
Tokens(s) ==
    IF s = <<>> THEN <<>>
    ELSE IF Head(s) = " " THEN Tokens(Tail(s))
    ELSE LET stops == {i \in 1..Len(s) : s[i] = " "}
             n == IF stops = {} THEN Len(s) + 1
                  ELSE CHOOSE i \in stops : \A j \in stops : i <= j
         IN <<SubSeq(s, 1, n - 1)>> \o Tokens(SubSeq(s, n, Len(s)))

scoreSetMatch(setObj, wantedSetName) ==
    LET n == ToLower(StringOf(OrElse(setObj.name, <<>>)))
        w == ToLower(StringOf(OrElse(wantedSetName, <<>>)))
        wn == {Tokens(w)[i] : i \in 1..Len(Tokens(w))}
        nn == Tokens(n)
    IN IF w = <<>> THEN 0
       ELSE IF n = w THEN 10
       ELSE IF Includes(n, w) \/ Includes(w, n) THEN 6
       ELSE Cardinality({i \in 1..Len(nn) : nn[i] \in wn})

\* [...list].sort((a, b) => score(b) - score(a))[0] under a stable sort: the
\* first element of the highest score
TopIndex(scores) ==
    CHOOSE i \in 1..Len(scores) :
        /\ \A j \in 1..Len(scores) : scores[j] <= scores[i]
        /\ \A j \in 1..(i - 1) : scores[j] < scores[i]

SetObjs == {[id |-> <<"s", "1">>, name |-> Base], [id |-> <<"s", "2">>, name |-> Jungle]}

\* what the /sets fetch can bring: it throws, answers with an error status, or
\* answers with a list
SetWorlds ==
    [threw : BOOLEAN, ok : {FALSE}, data : {<<>>}]
        \cup [threw : {FALSE}, ok : {TRUE}, data : SeqsUpTo(SetObjs, MaxSets)]

\* justTCGGetSetId after its fetch has answered
justTCGGetSetId(world, setName) ==
    IF ~world.ok \/ world.data = <<>> THEN Null
    ELSE LET scores == [i \in 1..Len(world.data) |-> scoreSetMatch(world.data[i], setName)]
         IN OrElse(world.data[TopIndex(scores)].id, Null)

\* an attempts array that starts with the free-text query
buildAttemptsTextFirst(sid, number) ==
    <<"text">>
        \o (IF Truthy(sid) /\ Truthy(number) THEN <<"setNumber">> ELSE <<>>)
        \o (IF Truthy(sid) THEN <<"setName">> ELSE <<>>)

\* the attempts array: set+number, then set+name, then free text
buildAttempts(sid, number) ==
    (IF Truthy(sid) /\ Truthy(number) THEN <<"setNumber">> ELSE <<>>)
        \o (IF Truthy(sid) THEN <<"setName">> ELSE <<>>)
        \o <<"text">>

\* score = (it) => ... of justTCGPriceUSD
scoreItem(it, name, setName, number) ==
    LET nm == ToLower(StringOf(OrElse(it.name, <<>>)))
        st == ToLower(StringOf(OrElse(it.set_name, <<>>)))
        no == ToLower(StringOf(OrElse(it.number, <<>>)))
        wantedName == ToLower(name)
        wantedSetName == ToLower(OrElse(setName, <<>>))
        wantedNumber == ToLower(OrElse(number, <<>>))
    IN (IF nm = wantedName THEN 8 ELSE IF Includes(nm, wantedName) THEN 5 ELSE 0)
       + (IF wantedSetName # <<>> /\ Includes(st, wantedSetName) THEN 3 ELSE 0)
       + (IF wantedNumber # <<>> /\ no = wantedNumber THEN 6 ELSE 0)
       + (IF it.variants # <<>> THEN 1 ELSE 0)

\* picked = ranked[0]
pickedItem(list, name, setName, number) ==
    list[TopIndex([i \in 1..Len(list) |-> scoreItem(list[i], name, setName, number)])]

UnpricedVariant == [printing |-> Normal, condition |-> NearMint, price |-> <<>>]
CardVariant == [printing |-> Normal, condition |-> NearMint, price |-> <<5>>]
BoxVariant == [printing |-> Normal, condition |-> NearMint, price |-> <<100>>]

MewEx == <<"M", "e", "w", " ", "e", "x">>

\* the card items of the provider: single cards, with no variants, an unpriced
\* variant or a priced one, sealed booster boxes, and a card of a longer name
\* from another set
Items ==
    [name : {Mew}, number : {Null, <<"4">>}, set_name : {Null, Base},
     variants : {<<>>, <<UnpricedVariant>>, <<CardVariant>>}]
        \cup [name : {MewBoosterBox}, number : {Null, <<"4">>}, set_name : {Base},
              variants : {<<BoxVariant>>}]
        \cup [name : {MewEx}, number : {<<"4">>}, set_name : {Jungle}, variants : {<<>>}]

\* what one /cards fetch can bring: it throws, answers with an error status, or
\* answers with a list
CardWorlds ==
    [threw : BOOLEAN, ok : {FALSE}, data : {<<>>}]
        \cup [threw : {FALSE}, ok : {TRUE}, data : SeqsUpTo(Items, MaxItems)]

\* what the ECB fetch can bring: a status and the two rates read from the XML,
\* in hundredths, 0 when the pattern does not match
FxWorlds == [threw : BOOLEAN, ok : BOOLEAN, USD : {0, 108}, GBP : {0, 86}]

\* getFX throws on a fetch error, a bad status, or a missing rate
getFXThrows(world) == world.threw \/ ~world.ok \/ world.USD = 0 \/ world.GBP = 0

PriceCards ==
    [game : {Null, Pokemon, <<"g", "o">>},
     name : {Null, Mew},
     set : {Null, Base},
     collectorNumber : {Null, <<"4", "/", "9">>},
     variant : {Null}]

Distributions == {<<>>, <<[grade |-> 100, prob |-> 50]>>}

NoPicked == [name |-> Null, set_name |-> Null, number |-> Null]

NoLive == [ok |-> FALSE, source |-> Null, currency |-> Null, raw |-> <<>>, picked |-> NoPicked]

\* a validation that asks for the game only
missingCardGameOnly(card) == Falsy(card.game)

\* !card?.game || !card?.name
missingCard(card) == Falsy(card.game) \/ Falsy(card.name)

NoCard == [game |-> Null, name |-> Null, set |-> Null, collectorNumber |-> Null, variant |-> Null]

PriceReply(status, source, rawPrice, currency, ev, fx) ==
    [status |-> status, source |-> source, raw |-> rawPrice, currency |-> currency,
     evGraded |-> ev, fx |-> fx]

NoPriceResponse == PriceReply(0, Null, <<>>, Null, <<>>, <<>>)

\* json(res, 200, { source: null, raw: null, currency: null, note })
NoLivePrice == PriceReply(200, Null, <<>>, Null, <<>>, <<>>)

\* json(res, status, { error })
PriceError(status) == PriceReply(status, Null, <<>>, Null, <<>>, <<>>)

PriceIdle ==
    /\ ppc = "idle"
    /\ priceCard = NoCard
    /\ apiKey = FALSE
    /\ setId = Null
    /\ attempts = <<>>
    /\ attemptLog = <<>>
    /\ items = <<>>
    /\ live = NoLive
    /\ evRuns = 0
    /\ evGraded = <<>>
    /\ fxFetches = 0
    /\ fxOutcome = "none"
    /\ priceResponse = NoPriceResponse
    /\ priceNow = 0
    /\ served = 0
    /\ fxEvents = <<>>
    /\ providerThrew = FALSE
    /\ externalCalls = 0

PriceInit ==
    /\ ppc = "start"
    /\ priceCard = NoCard
    /\ apiKey \in BOOLEAN
    /\ setId = Null
    /\ attempts = <<>>
    /\ attemptLog = <<>>
    /\ items = <<>>
    /\ live = NoLive
    /\ evRuns = 0
    /\ evGraded = <<>>
    /\ fxFetches = 0
    /\ fxOutcome = "none"
    /\ priceResponse = NoPriceResponse
    /\ priceNow = 0
    /\ served = 0
    /\ fxEvents = <<>>
    /\ providerThrew = FALSE
    /\ externalCalls = 0

cardNumber == normalizeCollectorNumber(priceCard.collectorNumber)
cardSetName == IF Truthy(priceCard.set) THEN Trim(StringOf(priceCard.set)) ELSE Null
cardName == IF Truthy(priceCard.name) THEN Trim(StringOf(priceCard.name)) ELSE Null

\* the handler up to its first fetch: method and body checks, then
\* justTCGPriceUSD up to the set lookup or the first card query
PriceRequest ==
    /\ ppc = "start"
    /\ \E method \in {"POST", "GET"}, bodyOk \in BOOLEAN, card \in PriceCards :
        LET number == normalizeCollectorNumber(card.collectorNumber)
            setName == IF Truthy(card.set) THEN Trim(StringOf(card.set)) ELSE Null
            name == IF Truthy(card.name) THEN Trim(StringOf(card.name)) ELSE Null
        IN
        IF method # "POST"
        THEN /\ priceResponse' = PriceError(405)
             /\ ppc' = "responded"
             /\ UNCHANGED <<priceCard, attempts, externalCalls>>
        ELSE IF ~bodyOk
        THEN /\ priceResponse' = PriceError(500)
             /\ ppc' = "responded"
             /\ UNCHANGED <<priceCard, attempts, externalCalls>>
        ELSE IF missingCard(card)
        THEN /\ priceResponse' = PriceError(400)
             /\ ppc' = "responded"
             /\ priceCard' = card
             /\ UNCHANGED <<attempts, externalCalls>>
        ELSE IF ~apiKey \/ toJustTCGGameId(card.game) = Null \/ Falsy(name)
        THEN /\ priceResponse' = NoLivePrice
             /\ ppc' = "responded"
             /\ priceCard' = card
             /\ UNCHANGED <<attempts, externalCalls>>
        ELSE IF Truthy(setName)
        THEN /\ ppc' = "sets"
             /\ priceCard' = card
             /\ externalCalls' = externalCalls + 1
             /\ UNCHANGED <<priceResponse, attempts>>
        ELSE /\ ppc' = "cards"
             /\ priceCard' = card
             /\ attempts' = buildAttempts(Null, number)
             /\ externalCalls' = externalCalls + 1
             /\ UNCHANGED priceResponse
    /\ UNCHANGED <<apiKey, setId, attemptLog, items, live, evRuns, evGraded, fxFetches,
                   fxOutcome, procVars, providerThrew>>

\* the /sets fetch of justTCGGetSetId settles
SetLookup ==
    /\ ppc = "sets"
    /\ \E world \in SetWorlds :
        IF world.threw
        THEN /\ priceResponse' = PriceError(500)
             /\ ppc' = "responded"
             /\ providerThrew' = TRUE
             /\ UNCHANGED <<setId, attempts, externalCalls>>
        ELSE /\ setId' = justTCGGetSetId(world, cardSetName)
             /\ attempts' = buildAttempts(setId', cardNumber)
             /\ ppc' = "cards"
             /\ externalCalls' = externalCalls + 1
             /\ UNCHANGED <<priceResponse, providerThrew>>
    /\ UNCHANGED <<priceCard, apiKey, attemptLog, items, live, evRuns, evGraded, fxFetches,
                   fxOutcome, procVars>>

\* one /cards fetch of the attempts loop settles; a priced answer runs the
\* handler on through the EV loop to the call of getFX
CardAttempt ==
    /\ ppc = "cards"
    /\ attempts # <<>>
    /\ \E world \in CardWorlds, distribution \in Distributions :
        LET wantPrinting == desiredPrinting(priceCard.variant)
            picked == pickedItem(world.data, cardName, cardSetName, cardNumber)
            priceUSD == priceUSDOf(pickVariantPrice(picked.variants, wantPrinting))
            skipped == ~world.ok \/ world.data = <<>>
        IN
        IF world.threw
        THEN /\ priceResponse' = PriceError(500)
             /\ ppc' = "responded"
             /\ providerThrew' = TRUE
             /\ UNCHANGED <<attempts, attemptLog, items, live, evRuns, evGraded, fxFetches,
                            fxEvents, externalCalls>>
        ELSE IF skipped \/ ~isFinite(priceUSD)
        THEN /\ attempts' = Tail(attempts)
             /\ attemptLog' = Append(attemptLog, [query |-> Head(attempts), count |-> Len(world.data),
                                            priceUSD |-> <<>>])
             /\ items' = IF skipped THEN items ELSE world.data
             /\ IF Tail(attempts) = <<>>
                THEN /\ priceResponse' = NoLivePrice
                     /\ ppc' = "responded"
                     /\ UNCHANGED externalCalls
                ELSE /\ externalCalls' = externalCalls + 1
                     /\ UNCHANGED <<priceResponse, ppc>>
             /\ UNCHANGED <<live, evRuns, evGraded, fxFetches, fxEvents, providerThrew>>
        ELSE /\ attempts' = Tail(attempts)
             /\ attemptLog' = Append(attemptLog, [query |-> Head(attempts), count |-> Len(world.data),
                                            priceUSD |-> priceUSD])
             /\ items' = world.data
             /\ live' = [ok |-> TRUE, source |-> JustTCG, currency |-> USD, raw |-> priceUSD,
                         picked |-> [name |-> OrElse(picked.name, Null),
                                     set_name |-> OrElse(picked.set_name, Null),
                                     number |-> OrElse(picked.number, Null)]]
             /\ evRuns' = evRuns + 1
             /\ fxFetches' = fxFetches + 1
             /\ evGraded' = <<evGradedOf(distOf(distribution), priceUSD)>>
             /\ fxEvents' = Append(fxEvents, [kind |-> "fetch", at |-> priceNow])
             /\ externalCalls' = externalCalls + 1
             /\ UNCHANGED <<priceResponse, providerThrew>>
             /\ ppc' = "fx"
    /\ UNCHANGED <<priceCard, apiKey, setId, fxOutcome, priceNow, served>>

\* the ECB fetch of getFX settles and the handler answers
FxSettle ==
    /\ ppc = "fx"
    /\ \E world \in FxWorlds :
        IF getFXThrows(world)
        THEN /\ priceResponse' = PriceError(500)
             /\ fxOutcome' = "threw"
             /\ UNCHANGED fxEvents
        ELSE /\ fxEvents' = Append(fxEvents, [kind |-> "ok", at |-> priceNow])
             /\ priceResponse' =
                    PriceReply(200, live.source, live.raw, live.currency,
                               evGraded, <<[USD |-> world.USD, GBP |-> world.GBP]>>)
             /\ fxOutcome' = "rates"
    /\ ppc' = "responded"
    /\ UNCHANGED <<priceCard, apiKey, setId, attempts, attemptLog, items, live,
                   evRuns, evGraded, fxFetches, priceNow, served, callVars>>

\* the next price request reaches the same process
PriceNextRequest ==
    /\ ppc = "responded"
    /\ served + 1 < MaxPriceRequests
    /\ served' = served + 1
    /\ ppc' = "start"
    /\ priceCard' = NoCard
    /\ setId' = Null
    /\ attempts' = <<>>
    /\ attemptLog' = <<>>
    /\ items' = <<>>
    /\ live' = NoLive
    /\ evRuns' = 0
    /\ evGraded' = <<>>
    /\ fxFetches' = 0
    /\ fxOutcome' = "none"
    /\ priceResponse' = NoPriceResponse
    /\ providerThrew' = FALSE
    /\ externalCalls' = 0
    /\ UNCHANGED <<apiKey, priceNow, fxEvents>>

\* time passes between two requests
PriceTick ==
    /\ ppc = "responded"
    /\ priceNow < MaxPriceClock
    /\ priceNow' = priceNow + 1
    /\ UNCHANGED <<priceVars, served, fxEvents, callVars>>

---------------------------------------------------------------------------
(* FX handler (api/fx.js) *)

\* 1000*60*60*12 milliseconds, in hours
FreshHours == 12

\* cache.rates && (now - cache.at) < 1000*60*60*12
cacheFreshInclusive(c, now) == c.rates # <<>> /\ (now - c.at) <= FreshHours

cacheFresh(c, now) == c.rates # <<>> /\ (now - c.at) < FreshHours

\* what the ECB fetch can bring: it throws, or its text holds the two rates
\* parseECB reads, in hundredths, 0 when the pattern does not match
EcbWorlds == [threw : BOOLEAN, GBP : {0, 86, 87}, USD : {0, 108}]

\* parseECB: { base: "EUR", GBP, USD }
parseECB(world) == [GBP |-> world.GBP, USD |-> world.USD]

\* a test that looks at the GBP rate only
ratesMissingGbpOnly(rates) == rates.GBP = 0

\* !rates.GBP || !rates.USD
ratesMissing(rates) == rates.GBP = 0 \/ rates.USD = 0

\* a snapshot stored without its time
refreshedUnstamped(now, rates) == [at |-> 0, rates |-> <<rates>>]

\* cache = { at: now, rates }, now being the time the request arrived
refreshed(now, rates) == [at |-> now, rates |-> <<rates>>]

FxReply(status, cached, rates) == [status |-> status, cached |-> cached, rates |-> rates]

NoFxResponse == FxReply(0, FALSE, <<>>)

\* let cache = { at: 0, rates: null }
ColdCache == [at |-> 0, rates |-> <<>>]

\* a request that has not arrived; arrivedAt and seen record the clock and the
\* cache at its arrival, fetches the upstream fetches it started
NoFxRequest ==
    [pc |-> "waiting", arrivedAt |-> 0, seen |-> ColdCache, fetches |-> 0,
     response |-> NoFxResponse]

FxIdle ==
    /\ fxNow = 0
    /\ cache = ColdCache
    /\ fxReqs = <<>>

FxInit ==
    /\ fxNow = 0
    /\ cache = ColdCache
    /\ fxReqs = [r \in 1..MaxFxRequests |-> NoFxRequest]

\* time passes
FxTick ==
    /\ fxNow < MaxClock
    /\ fxNow' = fxNow + 1
    /\ UNCHANGED <<cache, fxReqs>>

\* handler, up to the cache test and the start of the fetch; the requests are
\* numbered in the order they arrive
FxArrive(r) ==
    /\ fxReqs[r].pc = "waiting"
    /\ \A q \in 1..(r - 1) : fxReqs[q].pc # "waiting"
    /\ IF cacheFresh(cache, fxNow)
       THEN fxReqs' = [fxReqs EXCEPT ![r] =
                [pc |-> "done", arrivedAt |-> fxNow, seen |-> cache, fetches |-> 0,
                 response |-> FxReply(200, TRUE, cache.rates)]]
       ELSE fxReqs' = [fxReqs EXCEPT ![r] =
                [pc |-> "fetching", arrivedAt |-> fxNow, seen |-> cache, fetches |-> 1,
                 response |-> NoFxResponse]]
    /\ UNCHANGED <<fxNow, cache>>

\* handler, from the answer of the fetch to the response
FxFetched(r) ==
    /\ fxReqs[r].pc = "fetching"
    /\ \E world \in EcbWorlds :
        LET rates == parseECB(world) IN
        IF world.threw
        THEN /\ fxReqs' = [fxReqs EXCEPT ![r].pc = "done",
                                         ![r].response = FxReply(500, FALSE, <<>>)]
             /\ UNCHANGED cache
        ELSE IF ratesMissing(rates)
        THEN /\ fxReqs' = [fxReqs EXCEPT ![r].pc = "done",
                                         ![r].response = FxReply(500, FALSE, <<>>)]
             /\ UNCHANGED cache
        ELSE /\ cache' = refreshed(fxReqs[r].arrivedAt, rates)
             /\ fxReqs' = [fxReqs EXCEPT ![r].pc = "done",
                                         ![r].response = FxReply(200, FALSE, <<rates>>)]
    /\ UNCHANGED fxNow

---------------------------------------------------------------------------
(* Price handler: the EV loop and the uplift curve as functions *)

\* entries a caller may send: grade absent (0) or in tenths, prob in hundredths
DistEntries == [grade : {0, 90, 100}, prob : {-50, 0, 50, 100}]

SuppliedDistributions == SeqsUpTo(DistEntries, MaxDist) \ {<<>>}

RawPrices == {5, 100}

ScaleFactors == {2, 3}

\* the same distribution with every prob multiplied by k
scaled(dist, k) == [i \in 1..Len(dist) |-> [dist[i] EXCEPT !.prob = k * dist[i].prob]]

EvIdle ==
    /\ evpc = "idle" /\ evDist = <<>> /\ evRaw = 0 /\ evScale = 1
    /\ evOut = 0 /\ evScaledOut = 0

EvInit ==
    /\ evpc = "start"
    /\ evDist \in SuppliedDistributions
    /\ evRaw \in RawPrices
    /\ evScale \in ScaleFactors
    /\ evOut = 0 /\ evScaledOut = 0

\* the EV loop runs for the distribution and for its scaled copy
ComputeEv ==
    /\ evpc = "start"
    /\ evOut' = evGradedOf(distOf(evDist), <<evRaw>>)
    /\ evScaledOut' = evGradedOf(distOf(scaled(evDist, evScale)), <<evRaw>>)
    /\ evpc' = "done"
    /\ UNCHANGED <<evDist, evRaw, evScale>>

\* the grades 1 to 10 in steps of 0.5, in tenths
HalfGrades == {g \in 10..100 : g % 5 = 0}

UpIdle == uppc = "idle" /\ upGrades = <<10, 10>> /\ upOut = <<0, 0>>

UpInit == uppc = "start" /\ upGrades \in HalfGrades \X HalfGrades /\ upOut = <<0, 0>>

ApplyUplift ==
    /\ uppc = "start"
    /\ upOut' = <<upliftMultiplier(upGrades[1]), upliftMultiplier(upGrades[2])>>
    /\ uppc' = "done"
    /\ UNCHANGED upGrades

---------------------------------------------------------------------------
(* Price handler: convert, in exact fractions *)

EUR == <<"E", "U", "R">>
GBP == <<"G", "B", "P">>

\* a number as a fraction n / d with d > 0; an amount is <<fraction>>, or the
\* empty tuple for null
Frac(n, d) == [n |-> n, d |-> d]
NullAmount == <<>>

RECURSIVE Gcd(_, _)
Gcd(a, b) == IF b = 0 THEN a ELSE Gcd(b, a % b)

\* the same number in lowest terms (amounts are never negative)
lowest(f) == LET g == Gcd(f.n, f.d) IN Frac(f.n \div g, f.d \div g)

\* amt * rate and amt / rate for a rate given in hundredths
timesRate(amt, rate) == lowest(Frac(amt.n * rate, amt.d * 100))
overRate(amt, rate) == lowest(Frac(amt.n * 100, amt.d * rate))

\* equality of the numbers two fractions stand for
sameNumber(a, b) == a.n * b.d = b.n * a.d

\* an inner step that multiplies where toEUR divides
toEURTimes(amt, ccy, rates) ==
    IF ccy = EUR THEN amt
    ELSE IF ccy = GBP THEN timesRate(amt, rates.GBP)
    ELSE IF ccy = USD THEN timesRate(amt, rates.USD)
    ELSE amt

toEUR(amt, ccy, rates) ==
    IF ccy = EUR THEN amt
    ELSE IF ccy = GBP THEN overRate(amt, rates.GBP)
    ELSE IF ccy = USD THEN overRate(amt, rates.USD)
    ELSE amt

fromEUR(amt, ccy, rates) ==
    IF ccy = EUR THEN amt
    ELSE IF ccy = GBP THEN timesRate(amt, rates.GBP)
    ELSE IF ccy = USD THEN timesRate(amt, rates.USD)
    ELSE amt

\* convert(amount, from, to, rates); every fraction is finite
convert(amount, from, to, rates) ==
    IF amount = NullAmount THEN NullAmount
    ELSE IF from = to THEN amount
    ELSE <<fromEUR(toEUR(amount[1], from, rates), to, rates)>>

Currencies == {EUR, GBP, USD}

\* raw prices, EV values and the fee, and a null raw
Amounts == {NullAmount, <<Frac(0, 1)>>, <<Frac(5, 1)>>, <<Frac(15, 1)>>, <<Frac(3375, 1000)>>}

\* snapshots getFX returns: both rates present
Snapshots == [GBP : {86, 87}, USD : {108, 117}]

CvIdle ==
    /\ cvpc = "idle" /\ cvAmount = NullAmount /\ cvFrom = EUR /\ cvTo = EUR
    /\ cvRates = [GBP |-> 86, USD |-> 108] /\ cvThere = NullAmount /\ cvBack = NullAmount

CvInit ==
    /\ cvpc = "start"
    /\ cvAmount \in Amounts
    /\ cvFrom \in Currencies
    /\ cvTo \in Currencies
    /\ cvRates \in Snapshots
    /\ cvThere = NullAmount /\ cvBack = NullAmount

\* convert(x, A, B, rates)
ConvertThere ==
    /\ cvpc = "start"
    /\ cvThere' = convert(cvAmount, cvFrom, cvTo, cvRates)
    /\ cvpc' = "there"
    /\ UNCHANGED <<cvAmount, cvFrom, cvTo, cvRates, cvBack>>

\* convert(convert(x, A, B, rates), B, A, rates)
ConvertBack ==
    /\ cvpc = "there"
    /\ cvBack' = convert(cvThere, cvTo, cvFrom, cvRates)
    /\ cvpc' = "back"
    /\ UNCHANGED <<cvAmount, cvFrom, cvTo, cvRates, cvThere>>

---------------------------------------------------------------------------
(* Specifications *)

NormNext ==
    \/ Normalize /\ UNCHANGED <<scoreVars, identVars, variantVars, priceVars, procVars, callVars, fxVars, firstVars, evVars, upVars, cvVars>>
    \/ Renormalize /\ UNCHANGED <<scoreVars, identVars, variantVars, priceVars, procVars, callVars, fxVars, firstVars, evVars, upVars, cvVars>>

InitNormalize == NormInit /\ ScoreIdle /\ IdentIdle /\ VariantIdle /\ PriceIdle /\ FxIdle /\ FirstIdle /\ EvIdle /\ UpIdle /\ CvIdle

SpecNormalize == InitNormalize /\ [][NormNext]_vars

ScoreNext ==
    \/ Boost /\ UNCHANGED <<normVars, identVars, variantVars, priceVars, procVars, callVars, fxVars, firstVars, evVars, upVars, cvVars>>
    \/ BoostGrade /\ UNCHANGED <<normVars, identVars, variantVars, priceVars, procVars, callVars, fxVars, firstVars, evVars, upVars, cvVars>>

InitScorer == ScoreInit /\ NormIdle /\ IdentIdle /\ VariantIdle /\ PriceIdle /\ FxIdle /\ FirstIdle /\ EvIdle /\ UpIdle /\ CvIdle

SpecScorer == InitScorer /\ [][ScoreNext]_vars

IdentNext ==
    \/ MicroExtract /\ UNCHANGED <<normVars, scoreVars, variantVars, priceVars, procVars, callVars, fxVars, firstVars, evVars, upVars, cvVars>>
    \/ \E a \in Adapters : AdapterSettle(a) /\ UNCHANGED <<normVars, scoreVars, variantVars, priceVars, procVars, callVars, fxVars, firstVars, evVars, upVars, cvVars>>
    \/ PokemonPrimary /\ UNCHANGED <<normVars, scoreVars, variantVars, priceVars, procVars, callVars, fxVars, firstVars, evVars, upVars, cvVars>>
    \/ PokemonSecondary /\ UNCHANGED <<normVars, scoreVars, variantVars, priceVars, procVars, callVars, fxVars, firstVars, evVars, upVars, cvVars>>
    \/ RespondFast /\ UNCHANGED <<normVars, scoreVars, variantVars, priceVars, procVars, callVars, fxVars, firstVars, evVars, upVars, cvVars>>
    \/ FallbackExtract /\ UNCHANGED <<normVars, scoreVars, variantVars, priceVars, procVars, callVars, fxVars, firstVars, evVars, upVars, cvVars>>
    \/ RespondAfterFallback /\ UNCHANGED <<normVars, scoreVars, variantVars, priceVars, procVars, callVars, fxVars, firstVars, evVars, upVars, cvVars>>

InitIdentify == IdentInit /\ NormIdle /\ ScoreIdle /\ VariantIdle /\ PriceIdle /\ FxIdle /\ FirstIdle /\ EvIdle /\ UpIdle /\ CvIdle

SpecIdentify == InitIdentify /\ [][IdentNext]_vars

VariantNext == PickVariant /\ UNCHANGED <<normVars, scoreVars, identVars, priceVars, procVars, callVars, fxVars, firstVars, evVars, upVars, cvVars>>

InitVariant == VariantInit /\ NormIdle /\ ScoreIdle /\ IdentIdle /\ PriceIdle /\ FxIdle /\ FirstIdle /\ EvIdle /\ UpIdle /\ CvIdle

SpecVariant == InitVariant /\ [][VariantNext]_vars

PriceNext ==
    \/ PriceRequest /\ UNCHANGED <<normVars, scoreVars, identVars, variantVars, fxVars, firstVars, evVars, upVars, cvVars>>
    \/ SetLookup /\ UNCHANGED <<normVars, scoreVars, identVars, variantVars, fxVars, firstVars, evVars, upVars, cvVars>>
    \/ CardAttempt /\ UNCHANGED <<normVars, scoreVars, identVars, variantVars, fxVars, firstVars, evVars, upVars, cvVars>>
    \/ FxSettle /\ UNCHANGED <<normVars, scoreVars, identVars, variantVars, fxVars, firstVars, evVars, upVars, cvVars>>

InitPrice == PriceInit /\ NormIdle /\ ScoreIdle /\ IdentIdle /\ VariantIdle /\ FxIdle /\ FirstIdle /\ EvIdle /\ UpIdle /\ CvIdle

SpecPrice == InitPrice /\ [][PriceNext]_vars

PriceSeqNext ==
    \/ PriceRequest /\ UNCHANGED <<normVars, scoreVars, identVars, variantVars, fxVars, firstVars, evVars, upVars, cvVars>>
    \/ SetLookup /\ UNCHANGED <<normVars, scoreVars, identVars, variantVars, fxVars, firstVars, evVars, upVars, cvVars>>
    \/ CardAttempt /\ UNCHANGED <<normVars, scoreVars, identVars, variantVars, fxVars, firstVars, evVars, upVars, cvVars>>
    \/ FxSettle /\ UNCHANGED <<normVars, scoreVars, identVars, variantVars, fxVars, firstVars, evVars, upVars, cvVars>>
    \/ PriceNextRequest /\ UNCHANGED <<normVars, scoreVars, identVars, variantVars, fxVars, firstVars, evVars, upVars, cvVars>>
    \/ PriceTick /\ UNCHANGED <<normVars, scoreVars, identVars, variantVars, fxVars, firstVars, evVars, upVars, cvVars>>

InitPriceSeq == PriceInit /\ NormIdle /\ ScoreIdle /\ IdentIdle /\ VariantIdle /\ FxIdle /\ FirstIdle /\ EvIdle /\ UpIdle /\ CvIdle

SpecPriceSeq == InitPriceSeq /\ [][PriceSeqNext]_vars

FxNext ==
    \/ FxTick /\ UNCHANGED <<normVars, scoreVars, identVars, variantVars, priceVars, procVars, callVars, firstVars, evVars, upVars, cvVars>>
    \/ \E r \in 1..MaxFxRequests :
          FxArrive(r) /\ UNCHANGED <<normVars, scoreVars, identVars, variantVars, priceVars, procVars, callVars, firstVars, evVars, upVars, cvVars>>
    \/ \E r \in 1..MaxFxRequests :
          FxFetched(r) /\ UNCHANGED <<normVars, scoreVars, identVars, variantVars, priceVars, procVars, callVars, firstVars, evVars, upVars, cvVars>>

InitFx == FxInit /\ NormIdle /\ ScoreIdle /\ IdentIdle /\ VariantIdle /\ PriceIdle /\ FirstIdle /\ EvIdle /\ UpIdle /\ CvIdle

SpecFx == InitFx /\ [][FxNext]_vars

FirstNext ==
    \/ VisionExtract /\ UNCHANGED <<normVars, scoreVars, identVars, variantVars, priceVars, procVars, callVars, fxVars, evVars, upVars, cvVars>>
    \/ \E a \in Adapters :
          FirstAdapterSettle(a) /\ UNCHANGED <<normVars, scoreVars, identVars, variantVars, priceVars, procVars, callVars, fxVars, evVars, upVars, cvVars>>
    \/ FirstPokemonPrimary /\ UNCHANGED <<normVars, scoreVars, identVars, variantVars, priceVars, procVars, callVars, fxVars, evVars, upVars, cvVars>>
    \/ FirstPokemonSecondary /\ UNCHANGED <<normVars, scoreVars, identVars, variantVars, priceVars, procVars, callVars, fxVars, evVars, upVars, cvVars>>
    \/ FirstRespond /\ UNCHANGED <<normVars, scoreVars, identVars, variantVars, priceVars, procVars, callVars, fxVars, evVars, upVars, cvVars>>

InitFirst == FirstInit /\ NormIdle /\ ScoreIdle /\ IdentIdle /\ VariantIdle /\ PriceIdle /\ FxIdle /\ EvIdle /\ UpIdle /\ CvIdle

SpecFirst == InitFirst /\ [][FirstNext]_vars

EvNext == ComputeEv /\ UNCHANGED <<normVars, scoreVars, identVars, variantVars, priceVars, procVars, callVars, fxVars, firstVars, upVars, cvVars>>

InitEv == EvInit /\ NormIdle /\ ScoreIdle /\ IdentIdle /\ VariantIdle /\ PriceIdle /\ FxIdle /\ FirstIdle /\ UpIdle /\ CvIdle

SpecEv == InitEv /\ [][EvNext]_vars

UpNext == ApplyUplift /\ UNCHANGED <<normVars, scoreVars, identVars, variantVars, priceVars, procVars, callVars, fxVars, firstVars, evVars, cvVars>>

InitUplift == UpInit /\ NormIdle /\ ScoreIdle /\ IdentIdle /\ VariantIdle /\ PriceIdle /\ FxIdle /\ FirstIdle /\ EvIdle /\ CvIdle

SpecUplift == InitUplift /\ [][UpNext]_vars

CvNext ==
    \/ ConvertThere /\ UNCHANGED <<normVars, scoreVars, identVars, variantVars, priceVars, procVars, callVars, fxVars, firstVars, evVars, upVars>>
    \/ ConvertBack /\ UNCHANGED <<normVars, scoreVars, identVars, variantVars, priceVars, procVars, callVars, fxVars, firstVars, evVars, upVars>>

InitConvert == CvInit /\ NormIdle /\ ScoreIdle /\ IdentIdle /\ VariantIdle /\ PriceIdle /\ FxIdle /\ FirstIdle /\ EvIdle /\ UpIdle

SpecConvert == InitConvert /\ [][CvNext]_vars

---------------------------------------------------------------------------
(* Claims about the Normalizer *)

\* C5: normalizeCollectorNumber is idempotent: applying it to its own result
\* gives the same result, for every input, "/108", "1/2/3" and padded strings
\* included.
C5_Idempotent == npc = "twice" => renormalized = normalized

\* C6: the normalized collector number is never the empty string: the result
\* is null or a string of at least one character.
C6_NeverEmptyString == npc \in {"once", "twice"} => normalized # <<>>

---------------------------------------------------------------------------
(* Claims about the Candidate Scorer *)

Scored == scpc \in {"boosted", "graded"}

UnitRange(score) == score = <<>> \/ (0 <= score[1] /\ score[1] <= 99)

\* C3: for every identity and every candidate, a candidate with absent, zero
\* or negative base confidence included, boostByMatch returns v with
\* 0 <= v <= 0.99 (both the scorer of identify.js and that of grade.js).
C3_ScoreInUnitRange ==
    /\ Scored => scScore # <<>> /\ scTwinScore # <<>>
    /\ scpc = "graded" => scGradeScore # <<>>
    /\ UnitRange(scScore)
    /\ UnitRange(scTwinScore)
    /\ UnitRange(scGradeScore)

\* a candidate with a negative base confidence and no match is scored 0
C3_Witness ==
    /\ scpc = "graded"
    /\ scCand.confidence = <<0 - 10>>
    /\ scScore = <<0>>
    /\ scGradeScore = <<0>>

\* the identity has a set code, the candidate's set code equals it up to case,
\* the twin differs from the candidate in its set code only and does not match,
\* and the base confidence is one an adapter assigns (0.62 to 0.9)
SetCodePair ==
    /\ Scored
    /\ Truthy(scExtracted.setCode)
    /\ BothEqual(LowerOrNull(scExtracted.setCode), LowerOrNull(scCand.setCode))
    /\ ~BothEqual(LowerOrNull(scExtracted.setCode), LowerOrNull(scTwin.setCode))
    /\ scTwin = [scCand EXCEPT !.setCode = scTwin.setCode]
    /\ scCand.confidence # <<>>
    /\ 62 <= scCand.confidence[1] /\ scCand.confidence[1] <= 90

\* C4 as stated: of two candidates equal but for the set code, the one whose
\* set code matches the identity's scores strictly higher, for every adapter
\* base confidence and every combination of the other matches.
C4_StrictlyGreater == SetCodePair => scScore[1] > scTwinScore[1]

\* C4 as amended: the matching candidate scores strictly higher whenever the
\* other candidate's score is below the ceiling 0.99; when the other matches
\* already bring the other candidate to 0.99, both score 0.99.
C4_GreaterBelowCeiling ==
    SetCodePair =>
        /\ scTwinScore[1] < 99 => scScore[1] > scTwinScore[1]
        /\ scTwinScore[1] = 99 => scScore[1] = 99

\* a set code that matches up to case only lifts a score that is below 0.99
C4_Witness ==
    /\ SetCodePair
    /\ scCand.setCode # scExtracted.setCode
    /\ scTwinScore[1] < 99
    /\ scScore[1] > scTwinScore[1]

---------------------------------------------------------------------------
(* Claims about the Resolver and the identify handler *)

\* the candidates runResolvers returned in the pass that was answered
Merged == runResolversResult(extracted.game, settled)

Answered200 == ipc = "responded" /\ response.status = 200

\* C1: every 200 response of the identify handler carries at most 6 candidates
\* whose confidence values are non-increasing from first to last, for any
\* number and any order of candidates returned by the adapters.
C1_AtMostSixSorted ==
    Answered200 =>
        /\ Len(response.candidates) <= 6
        /\ \A i \in 1..(Len(response.candidates) - 1) :
              response.candidates[i].confidence[1]
                  >= response.candidates[i + 1].confidence[1]

\* more than 6 candidates came back, out of order, and the answer holds the 6 best
C1_Witness ==
    /\ Answered200
    /\ Len(Merged) > 6
    /\ Len(response.candidates) = 6
    /\ response.candidates[1].confidence[1] > response.candidates[6].confidence[1]
    /\ \E i, j \in 1..Len(Merged) :
          i < j /\ boostByMatch(extracted, Merged[i]) < boostByMatch(extracted, Merged[j])

---------------------------------------------------------------------------
(* Claims about pickVariantPrice *)

Priced(v) == v.price # <<>>

\* the variants of the item that fall in each tier pickVariantPrice tries
BothTier == {i \in 1..Len(pvVariants) :
                printingOk(pvVariants[i], pvWantPrinting) /\ isNM(pvVariants[i])}
PrintingTier == {i \in 1..Len(pvVariants) : printingOk(pvVariants[i], pvWantPrinting)}
NearMintTier == {i \in 1..Len(pvVariants) : isNM(pvVariants[i])}
AnyTier == 1..Len(pvVariants)

PricedIn(tier) == {i \in tier : Priced(pvVariants[i])}

\* the first tier, in the order the function tries them, with a priced variant
FirstPricedTier ==
    IF PricedIn(BothTier) # {} THEN BothTier
    ELSE IF PricedIn(PrintingTier) # {} THEN PrintingTier
    ELSE AnyTier

\* C8 as stated: pickVariantPrice returns, from the first tier that contains a
\* variant with a finite price, the lowest finite price among that tier's variants.
C8_LowestOfFirstTier ==
    (pvpc = "picked" /\ PricedIn(AnyTier) # {}) =>
        /\ pvBest # <<>>
        /\ \E i \in PricedIn(FirstPricedTier) : pvVariants[i].price[1] = pvBest[1].price
        /\ \A i \in PricedIn(FirstPricedTier) : pvVariants[i].price[1] >= pvBest[1].price

\* C8 as amended: pickVariantPrice returns, from the first tier that contains a
\* variant with a finite price, the highest finite price among that tier's
\* variants; it returns null exactly when no variant has a finite price.
C8_HighestOfFirstTier ==
    pvpc = "picked" =>
        /\ (pvBest = <<>>) = (PricedIn(AnyTier) = {})
        /\ pvBest # <<>> =>
              /\ \E i \in PricedIn(FirstPricedTier) :
                    pvVariants[i].price[1] = pvBest[1].price
              /\ \A i \in PricedIn(FirstPricedTier) :
                    pvVariants[i].price[1] <= pvBest[1].price

\* a tier with two different prices: the higher one is returned
C8_Witness ==
    /\ pvpc = "picked"
    /\ pvBest # <<>>
    /\ pvBest[1].price = 2
    /\ \E i \in PricedIn(FirstPricedTier) : pvVariants[i].price[1] = 1
    /\ PricedIn(AnyTier) # PricedIn(FirstPricedTier)

\* no variant is both of the wanted printing and Near Mint, and some priced
\* variant is Near Mint in another printing
OnlyOtherPrintingNearMint ==
    /\ pvpc = "picked"
    /\ BothTier = {}
    /\ PricedIn(NearMintTier) # {}

\* C9 as stated: the tiers are tried in the order (printing and condition) then
\* (Near Mint, any printing) then (any variant): with no variant matching both
\* and a priced Near Mint variant of another printing, the price comes from a
\* Near Mint variant, not from a variant of the wanted printing in another condition.
C9_NearMintBeforePrinting ==
    OnlyOtherPrintingNearMint => pvBest # <<>> /\ isNM(pvBest[1].variant)

\* C9 as amended: the tiers are tried in the order (printing and Near Mint)
\* then (wanted printing, any condition) then (any variant): when no priced
\* variant matches both and some priced variant has the wanted printing, the
\* price comes from a variant of the wanted printing, even when a Near Mint
\* variant of another printing is priced; a Near Mint variant of another
\* printing is used only when no variant of the wanted printing is priced.
C9_PrintingBeforeNearMint ==
    pvpc = "picked" =>
        /\ PricedIn(BothTier) # {} =>
              /\ pvBest # <<>>
              /\ printingOk(pvBest[1].variant, pvWantPrinting)
              /\ isNM(pvBest[1].variant)
        /\ (PricedIn(BothTier) = {} /\ PricedIn(PrintingTier) # {}) =>
              /\ pvBest # <<>>
              /\ printingOk(pvBest[1].variant, pvWantPrinting)
        /\ (PricedIn(PrintingTier) = {} /\ PricedIn(AnyTier) # {}) =>
              /\ pvBest # <<>>
              /\ Priced(pvBest[1].variant)

\* a priced Near Mint variant of the other printing is passed over for a
\* played variant of the wanted printing
C9_Witness ==
    /\ OnlyOtherPrintingNearMint
    /\ PricedIn(PrintingTier) # {}
    /\ pvBest # <<>>
    /\ printingOk(pvBest[1].variant, pvWantPrinting)
    /\ ~isNM(pvBest[1].variant)

---------------------------------------------------------------------------
(* Claims about the price handler *)

\* a name that denotes a sealed product
SealedName(name) ==
    name # Null /\ Includes(ToLower(name), <<"b", "o", "o", "s", "t", "e", "r", " ", "b", "o", "x">>)

\* the answered list holds a sealed item and a single card with a finite price
SealedBesideSingle ==
    /\ live.ok
    /\ \E i \in 1..Len(items) : SealedName(items[i].name)
    /\ \E i \in 1..Len(items) :
          /\ ~SealedName(items[i].name)
          /\ pickVariantPrice(items[i].variants, desiredPrinting(priceCard.variant)) # <<>>

\* C7 as stated: when the provider's list holds a sealed item ("Booster Box")
\* and a single card with a finite price, the raw price returned is never the
\* sealed item's, whatever the two items' name, set and number scores.
C7_NeverSealedPrice ==
    SealedBesideSingle => (~SealedName(live.picked.name) /\ live.raw # BoxVariant.price)

\* no query attempt so far found a finite price for its picked item
NeverPriced == \A i \in 1..Len(attemptLog) : attemptLog[i].priceUSD = <<>>

\* C10 as stated: a price response with a non-null source has a finite raw
\* price; while no attempt's picked item has a finite price the EV loop and the
\* FX fetch are not run and the answer, if any, is the no-live-price result.
C10_SourceImpliesFiniteRaw ==
    /\ (ppc = "responded" /\ priceResponse.source # Null) => priceResponse.raw # <<>>
    /\ (NeverPriced /\ ppc # "idle") =>
          /\ evRuns = 0
          /\ fxFetches = 0
          /\ (ppc = "responded" /\ priceResponse.status = 200) => priceResponse = NoLivePrice

\* C11 as stated: when the exchange-rate fetch fails during a price request
\* for which a live price was found, the handler still answers 200 with raw and
\* evGraded in the source currency, never with an error status.
C11_FxFailureStillAnswers ==
    (ppc = "responded" /\ live.ok /\ fxOutcome = "threw") =>
        /\ priceResponse.status = 200
        /\ priceResponse.raw = live.raw
        /\ priceResponse.evGraded = evGraded

---------------------------------------------------------------------------
(* Claims about the FX handler *)

\* a snapshot was cached and less than 12 hours old when request r arrived
ArrivedFresh(r) ==
    /\ fxReqs[r].seen.rates # <<>>
    /\ fxReqs[r].arrivedAt - fxReqs[r].seen.at < 12

\* C12: a request that arrives while a snapshot is cached and less than 12
\* hours after its timestamp performs no upstream fetch and returns exactly the
\* cached GBP and USD rates; a request that arrives with no snapshot, or 12
\* hours or more after the timestamp, performs one upstream fetch.
C12_FreshWindow ==
    \A r \in DOMAIN fxReqs :
        fxReqs[r].pc # "waiting" =>
            IF ArrivedFresh(r)
            THEN /\ fxReqs[r].fetches = 0
                 /\ fxReqs[r].pc = "done"
                 /\ fxReqs[r].response = FxReply(200, TRUE, fxReqs[r].seen.rates)
            ELSE fxReqs[r].fetches = 1

\* a request that arrived with no snapshot fetched and cached the rates, and a
\* later request, less than 12 hours after, was answered with those rates
C12_Witness ==
    \E r1, r2 \in DOMAIN fxReqs :
        /\ fxReqs[r1].pc = "done" /\ fxReqs[r1].seen.rates = <<>> /\ fxReqs[r1].fetches = 1
        /\ fxReqs[r2].pc = "done" /\ ArrivedFresh(r2) /\ fxReqs[r2].fetches = 0
        /\ fxReqs[r2].arrivedAt > fxReqs[r1].arrivedAt
        /\ fxReqs[r2].response.rates = fxReqs[r1].response.rates

---------------------------------------------------------------------------
(* Claims about the process that serves the price requests *)

\* C13 as stated: price requests read the shared exchange-rate snapshot: of the
\* price requests with live prices one process handles within 12 hours of a
\* successful exchange-rate fetch, only the first triggers an upstream fetch, so
\* no fetch starts less than 12 hours after an earlier fetch succeeded.
C13_OneFetchPerWindow ==
    \A j \in 1..Len(fxEvents) :
        fxEvents[j].kind = "fetch" =>
            ~\E i \in 1..(j - 1) :
                /\ fxEvents[i].kind = "ok"
                /\ fxEvents[j].at - fxEvents[i].at < FreshHours

---------------------------------------------------------------------------
(* Identify handler, fast-first pipeline: requests without any match *)

\* the adapters ran and the last resolution pass found no match in any catalog;
\* the handler starts a second pass only after an empty first one
NoProviderMatch ==
    /\ ipc = "responded"
    /\ pass >= 1
    /\ \A a \in Adapters : settled[a] = <<>>

\* C17 as stated: when no provider returns any match, the handler answers with
\* status 200 and an empty candidate list, never with an error status.
C17_NoMatchNeverError ==
    NoProviderMatch => response = Reply(200, <<>>)

\* C17: when no provider returns any match, the handler answers with status 200
\* and an empty candidate list once the second resolution pass has settled; the
\* only other answer is the 500 sent when the fallback extraction, which the
\* empty first pass triggers, fails.
C17_NoMatchIsSuccessAfterFallback ==
    NoProviderMatch =>
        /\ pass = 2 => response.status = 200 /\ response.candidates = <<>>
        /\ pass = 1 => response.status = 500 /\ response.candidates = <<>>

\* both resolution passes ran, no catalog matched, and the answer was sent
C17_Witness ==
    /\ NoProviderMatch
    /\ pass = 2
    /\ \E g \in Games : <<1, g, "mtg">> \in calls
    /\ \E g \in Games : <<2, g, "mtg">> \in calls
    /\ response.status = 200

---------------------------------------------------------------------------
(* Identify handler, fast-first pipeline: the Pokemon adapter *)

\* the request was answered for a Pokemon identity with a name and a number
PokemonAnswered ==
    /\ ipc = "responded"
    /\ response.status = 200
    /\ extracted.game = "pokemon"
    /\ Truthy(extracted.name)
    /\ Truthy(extracted.collectorNumber)

\* the catalog the adapter queried last returned a card of the wanted number
CatalogReturnedNumber ==
    \E i \in DOMAIN settled["pokemon"] :
        settled["pokemon"][i].collectorNumber = extracted.collectorNumber

C25_PokemonConfidenceBands ==
    \A i \in DOMAIN settled["pokemon"] :
        LET c == settled["pokemon"][i] IN
        IF Truthy(extracted.collectorNumber)
           /\ Trim(c.collectorNumber) = extracted.collectorNumber
        THEN c.confidence[1] \in 86..90
        ELSE c.confidence[1] \in 62..68

\* openaiFallbackExtract is called in this step: it either fails, which ends
\* the request with status 500, or starts the second resolver pass
FallbackCalledNow ==
    /\ pass = 1 /\ ipc = "resolving"
    /\ \/ pass' = 2
       \/ ipc' = "responded" /\ response'.status = 500

\* the first resolver pass has settled with at least one candidate
FirstPassFound ==
    /\ pass = 1 /\ ipc = "resolving" /\ pending = {}
    /\ \E a \in Adapters : settled[a] # <<>>

\* C30: the fallback extraction and the second resolver pass run at most once
\* per request and only after the first pass returned no candidate; when the
\* first pass returns a candidate the response is sent without the fallback.
C30_FallbackOnlyAfterEmptyFirstPass ==
    [][/\ FallbackCalledNow => pending = {} /\ \A a \in Adapters : settled[a] = <<>>
       /\ pass' \in {pass, pass + 1} /\ pass' <= 2
       /\ FirstPassFound => ipc' = "responded" /\ response'.status = 200 /\ pass' = 1]_vars

\* the second pass, started after an empty first one, found candidates
C30_Witness ==
    /\ ipc = "responded"
    /\ pass = 2
    /\ \E g \in Games, a \in Adapters : <<1, g, a>> \in calls
    /\ response.status = 200
    /\ response.candidates # <<>>

---------------------------------------------------------------------------
(* Identify handler, first pipeline: adapter failures *)

\* the request named no known game, so all three adapters were called
UnknownGameRequest == hStarted = Adapters

\* C14: on an unknown-game request, an adapter whose fetch failed or timed out
\* contributes no candidate, and the response is a 200 carrying the ranked
\* candidates of the adapters that answered.
C14_FailedAdapterContributesNothing ==
    (hpc = "responded" /\ UnknownGameRequest /\ hThrew # {}) =>
        /\ hResponse.status = 200
        /\ hResponse.candidates =
               rankCandidatesFirst(hExtracted, candidatesFirst(hExtracted.game, hSettled))

\* C16: on an unknown-game request the three adapters are all started before
\* the handler awaits, and no response, success or error, is sent while an
\* adapter call is still unsettled, whatever the order of completions and failures.
C16_NoResponseBeforeAllSettle ==
    (hpc = "responded" /\ UnknownGameRequest) =>
        /\ hPendingAtReply = {}
        /\ hPending = {}

\* C26: for a non-empty name resolvePokemon returns an empty list only after
\* the secondary catalog was queried too: whenever the primary catalog yields
\* no candidate, also when it returned cards none of which has the requested
\* number, the secondary catalog is queried before the adapter returns.
C26_EmptyOnlyAfterSecondary ==
    (/\ "pokemon" \in hStarted \ hPending
     /\ TrimOr(hExtracted.name, <<>>) # <<>>
     /\ hSettled["pokemon"] = <<>>) => "tcgdex" \in hQueried

---------------------------------------------------------------------------
(* Price handler: provider failures and caller-input errors *)

\* C15: a pricing-provider call (set lookup or card query) that fails at the
\* transport level or times out is not fatal: the request is answered with
\* status 200, and with the no-live-price result when no attempt found a price.
C15_ProviderFailureNotFatal ==
    (ppc = "responded" /\ providerThrew) =>
        /\ priceResponse.status = 200
        /\ (~live.ok => priceResponse = NoLivePrice)

\* C18: a price request whose card lacks game or name (and that is not turned
\* away for its method or an unreadable body before the card is looked at) is
\* answered with status 400, and no external call is made for it: no set
\* lookup, no card query, no exchange-rate fetch.
C18_MissingCardNoExternalCall ==
    (ppc \notin {"idle", "start"} /\ (Falsy(priceCard.game) \/ Falsy(priceCard.name))) =>
        /\ ppc = "responded"
        /\ externalCalls = 0 /\ attemptLog = <<>> /\ fxFetches = 0
        /\ \/ priceResponse.status = 400
           \/ priceCard = NoCard /\ priceResponse.status \in {405, 500}

\* a card with a game and no name, sent while the provider key is configured,
\* was answered
C18_Witness ==
    /\ ppc = "responded"
    /\ apiKey
    /\ priceCard.game = Pokemon /\ priceCard.name = Null /\ priceCard.set = Base
    /\ priceResponse.status = 400
    /\ externalCalls = 0

---------------------------------------------------------------------------
(* Price handler: expected graded value *)

\* the sum of the probabilities after clamping at zero, in hundredths
RECURSIVE totalProb(_)
totalProb(dist) ==
    IF dist = <<>> THEN 0 ELSE Max(0, Head(dist).prob) + totalProb(Tail(dist))

\* the sum of max(0, prob) * raw * uplift over the entries, an absent grade read as 9
RECURSIVE weightedUplift(_, _)
weightedUplift(dist, rawNum) ==
    IF dist = <<>> THEN 0
    ELSE LET g == Head(dist)
             u == upliftMultiplier(clamp(IF g.grade = 0 THEN 90 ELSE g.grade, 10, 100))
         IN Max(0, g.prob) * rawNum * u + weightedUplift(Tail(dist), rawNum)

\* C19: for a supplied distribution of positive total probability, evGraded is
\* raw times the sum of (max(0, prob) / total) * upliftMultiplier(grade), so the
\* weights sum to 1 and scaling every prob by one positive factor leaves it
\* unchanged; [{grade 9, prob 1}] with raw 100 gives 135. evOut is in 1/10000
\* and totalProb in hundredths, hence the factor 100.
C19_EvUsesNormalizedWeights ==
    (evpc = "done" /\ totalProb(evDist) > 0) =>
        /\ evOut * totalProb(evDist) = 100 * weightedUplift(evDist, evRaw)
        /\ evScaledOut = evOut
        /\ (evDist = <<[grade |-> 90, prob |-> 100]>> /\ evRaw = 100) => evOut = 1350000

\* C20: upliftMultiplier is non-decreasing over the grades 1 to 10 in steps of
\* 0.5: a lower grade never has the higher multiplier.
C20_UpliftNonDecreasing ==
    (uppc = "done" /\ upGrades[1] < upGrades[2]) => upOut[1] <= upOut[2]

\* the curve was applied to 9.0 and 9.5, which lie in different bands
C20_Witness ==
    /\ uppc = "done"
    /\ upGrades = <<90, 95>>
    /\ upOut[1] < upOut[2]

---------------------------------------------------------------------------
(* Price handler: currency conversion *)

\* C21: for a finite amount x, currencies A and B among EUR, GBP and USD, and a
\* snapshot with positive GBP and USD rates, converting x from A to B and the
\* result back from B to A gives x again, exactly.
C21_RoundTrip ==
    (cvpc = "back" /\ cvAmount # NullAmount) =>
        /\ cvBack # NullAmount
        /\ sameNumber(cvBack[1], cvAmount[1])

\* a non-zero amount went from GBP to USD and back
C21_Witness ==
    /\ cvpc = "back"
    /\ cvAmount = <<Frac(5, 1)>>
    /\ cvFrom = GBP /\ cvTo = USD
    /\ ~sameNumber(cvThere[1], cvAmount[1])
    /\ sameNumber(cvBack[1], cvAmount[1])

---------------------------------------------------------------------------
(* Price handler: the card queries *)

\* the queries in the stated order for the set id resolved and the number asked
QueriesInOrder ==
    (IF setId # Null /\ cardNumber # Null THEN <<"setNumber">> ELSE <<>>)
        \o (IF setId # Null THEN <<"setName">> ELSE <<>>)
        \o <<"text">>

\* C23: the card queries are sent one at a time in the order set+number (only
\* with a set id and a number), set+name (only with a set id), free text; and
\* no query is sent after one that returned a non-empty list.
C23_QueriesInOrderUntilResults ==
    /\ Len(attemptLog) <= Len(QueriesInOrder)
    /\ \A i \in 1..Len(attemptLog) : attemptLog[i].query = QueriesInOrder[i]
    /\ \A i \in 1..Len(attemptLog) :
          attemptLog[i].count > 0 => i = Len(attemptLog) /\ ppc \in {"fx", "responded"}

\* set+number and set+name returned nothing, the free-text query returned items
C23_Witness ==
    /\ Len(attemptLog) = 3
    /\ attemptLog[1].query = "setNumber" /\ attemptLog[1].count = 0
    /\ attemptLog[2].query = "setName" /\ attemptLog[2].count = 0
    /\ attemptLog[3].query = "text" /\ attemptLog[3].count > 0

---------------------------------------------------------------------------
(* Price handler: the set lookup *)

\* C24: justTCGGetSetId returns null without a set name, and also when every
\* set of the catalog's answer scores zero against the wanted name; a set id
\* is returned only for a set that scores above zero.
C24_SetIdOnlyForRelevantSet ==
    /\ cardSetName = Null => setId = Null
    /\ setId # Null =>
          \E o \in SetObjs : o.id = setId /\ scoreSetMatch(o, cardSetName) > 0

---------------------------------------------------------------------------
(* Price handler: the item picked *)

\* C27: when a collector number was requested and an item of the provider's
\* list has exactly that number, the item picked for pricing has that number,
\* whatever the name and set scores of the other items.
C27_PickedHasRequestedNumber ==
    (/\ live.ok
     /\ cardNumber # Null
     /\ \E i \in 1..Len(items) : items[i].number = cardNumber)
        => live.picked.number = cardNumber

---------------------------------------------------------------------------
(* FX handler: what a request may do to the cache *)

\* request r answers with an error in this step
FailsNow(r) ==
    fxReqs[r].pc = "fetching" /\ fxReqs'[r].pc = "done" /\ fxReqs'[r].response.status = 500

\* C28: a request that ends in failure (the fetch throws, or the GBP or USD
\* rate is not found) leaves the cached snapshot and its timestamp as they
\* were, and the cache is only ever replaced by a snapshot with both rates.
C28_FailureKeepsCache ==
    [][/\ (\E r \in DOMAIN fxReqs : FailsNow(r)) => cache' = cache
       /\ cache' # cache =>
             /\ cache'.rates # <<>>
             /\ cache'.rates[1].GBP > 0
             /\ cache'.rates[1].USD > 0]_vars

\* a request found a stale snapshot, its refresh failed, and the snapshot is
\* still the one it found
C28_Witness ==
    \E r \in DOMAIN fxReqs :
        /\ fxReqs[r].pc = "done"
        /\ fxReqs[r].response.status = 500
        /\ fxReqs[r].seen.rates # <<>>
        /\ cache = fxReqs[r].seen

\* request r answers in this step with the rates it fetched
RefreshesNow(r) ==
    fxReqs[r].pc = "fetching" /\ fxReqs'[r].pc = "done" /\ fxReqs'[r].response.status = 200

\* C29 as stated: under every interleaving of requests that each find a stale
\* or absent snapshot and refresh it, the timestamp of the cached snapshot
\* never decreases.
C29_TimestampNeverDecreases ==
    [][cache'.at >= cache.at]_vars

\* C29: under every interleaving of such requests the last refresh to complete
\* wins: the cache then holds the rates that request fetched, stamped with the
\* time that request arrived, which is never later than the current time and
\* may be earlier than the stamp it replaces.
C29_LastWriteWins ==
    [][/\ \A r \in DOMAIN fxReqs :
             RefreshesNow(r) =>
                 cache' = [at |-> fxReqs[r].arrivedAt, rates |-> fxReqs'[r].response.rates]
       /\ cache'.at <= fxNow']_vars

\* two requests refreshed concurrently and the one that arrived first wrote last
C29_Witness ==
    \E r1, r2 \in DOMAIN fxReqs :
        /\ fxReqs[r1].pc = "done" /\ fxReqs[r1].response = FxReply(200, FALSE, cache.rates)
        /\ fxReqs[r2].pc = "done" /\ fxReqs[r2].response.status = 200
        /\ fxReqs[r2].fetches = 1
        /\ fxReqs[r1].arrivedAt < fxReqs[r2].arrivedAt
        /\ cache.at = fxReqs[r1].arrivedAt

====
